---- MODULE Spec2Model ----
(***************************************************************************)
(* The export pipeline of openscreen: VideoExporter (export, cancel,       *)
(* cleanup, initializeEncoder, initializeAudioEncoder, extractAudio, the   *)
(* time mapping around trim regions) with VideoFileDecoder, and the        *)
(* browser's encoders, the FrameRenderer and the VideoMuxer at their       *)
(* interface boundary.                                                     *)
(*                                                                         *)
(* JavaScript runs every task to completion: one action is the code from   *)
(* the resumption of one await (or the start of one callback) up to the    *)
(* next await.  An object is named by the export call that created it      *)
(* (every export() creates at most one of each kind); 0 is null.           *)
(***************************************************************************)
EXTENDS Integers, Sequences, FiniteSets, TLC

\* ---------------------------------------------------------------- bounds
\* export() calls on the one VideoExporter instance
MaxRuns == 2
\* camera bubble windows created by the main process
MaxWindows == 5
\* startRecording() calls of one useScreenRecorder instance
MaxStarts == 2
\* cancel() calls
MaxCancels == 1
\* faults injected by the environment (a rejected promise, an encoder error)
MaxFaults == 1
\* length of the source clip, in frames of the output rate
MaxFrames == 3
\* buffers the audio graph delivers to onaudioprocess
MaxAudioBuffers == 1
\* MAX_ENCODE_QUEUE is 120 in the source; the model keeps the name and scales
\* the value down so that the frame loop reaches the bound
MAX_ENCODE_QUEUE == 2

\* config.frameRate, frames per second
FrameRate == 1
\* one frame period of the source clip in milliseconds
FramePeriodMs == 1000 \div FrameRate
\* videoInfo.duration, in milliseconds
SourceDurationMs == MaxFrames * FramePeriodMs

Runs == 1..MaxRuns
Refs == 0..MaxRuns

\* -------------------------------------------------------------- TimeMapper
\* [...trimRegions].sort((a, b) => a.startMs - b.startMs): a stable sort,
\* computed by insertion from the left
RECURSIVE InsertByStart(_, _)
InsertByStart(sorted, x) ==
    IF sorted = << >> THEN << x >>
    ELSE IF Head(sorted).startMs <= x.startMs
         THEN << Head(sorted) >> \o InsertByStart(Tail(sorted), x)
         ELSE << x >> \o sorted

RECURSIVE SortByStart(_)
SortByStart(trims) ==
    IF trims = << >> THEN << >>
    ELSE InsertByStart(SortByStart(SubSeq(trims, 1, Len(trims) - 1)), trims[Len(trims)])

\* the walk with the break test inverted: if (sourceTimeMs >= trim.startMs) break
RECURSIVE WalkTrimsInverted(_, _, _)
WalkTrimsInverted(sortedTrims, k, sourceTimeMs) ==
    IF k > Len(sortedTrims) THEN sourceTimeMs
    ELSE IF sourceTimeMs >= sortedTrims[k].startMs THEN sourceTimeMs
    ELSE WalkTrimsInverted(sortedTrims, k + 1,
                   sourceTimeMs + (sortedTrims[k].endMs - sortedTrims[k].startMs))

\* the walk with the break test off by one: if (sourceTimeMs <= trim.startMs) break
RECURSIVE WalkTrimsOffByOne(_, _, _)
WalkTrimsOffByOne(sortedTrims, k, sourceTimeMs) ==
    IF k > Len(sortedTrims) THEN sourceTimeMs
    ELSE IF sourceTimeMs <= sortedTrims[k].startMs THEN sourceTimeMs
    ELSE WalkTrimsOffByOne(sortedTrims, k + 1,
                   sourceTimeMs + (sortedTrims[k].endMs - sortedTrims[k].startMs))

\* the walk stopping after the first region it has added
RECURSIVE WalkTrimsFirstOnly(_, _, _)
WalkTrimsFirstOnly(sortedTrims, k, sourceTimeMs) ==
    IF k > Len(sortedTrims) THEN sourceTimeMs
    ELSE IF sourceTimeMs < sortedTrims[k].startMs THEN sourceTimeMs
    ELSE sourceTimeMs + (sortedTrims[k].endMs - sortedTrims[k].startMs)

\* the for-loop of mapEffectiveToSourceTime over the sorted trims, from index k
RECURSIVE WalkTrims(_, _, _)
WalkTrims(sortedTrims, k, sourceTimeMs) ==
    IF k > Len(sortedTrims) THEN sourceTimeMs
    ELSE IF sourceTimeMs < sortedTrims[k].startMs THEN sourceTimeMs
    ELSE WalkTrims(sortedTrims, k + 1,
                   sourceTimeMs + (sortedTrims[k].endMs - sortedTrims[k].startMs))

mapEffectiveToSourceTime(trimRegions, effectiveTimeMs) ==
    WalkTrims(SortByStart(trimRegions), 1, effectiveTimeMs)

\* the reduce of getEffectiveDuration without its accumulator: the callback
\* returns the region's own length, so the last region's length is the total
TotalTrimLast(trims) ==
    IF trims = << >> THEN 0
    ELSE trims[Len(trims)].endMs - trims[Len(trims)].startMs

\* getEffectiveDuration, in milliseconds (the source divides each term by 1000)
RECURSIVE TotalTrimMs(_)
TotalTrimMs(trims) ==
    IF trims = << >> THEN 0
    ELSE (Head(trims).endMs - Head(trims).startMs) + TotalTrimMs(Tail(trims))

getEffectiveDurationMs(trimRegions, totalDurationMs) ==
    totalDurationMs - TotalTrimMs(trimRegions)

\* Math.ceil(x / d) for d > 0
CeilDiv(x, d) == IF x <= 0 THEN -((-x) \div d) ELSE (x + d - 1) \div d

\* Math.ceil(effectiveDuration * this.config.frameRate), the duration in ms
FrameCount(effectiveDurationMs) == CeilDiv(effectiveDurationMs * FrameRate, 1000)

\* Math.ceil(effectiveDuration * frameRate), effectiveDuration in seconds
TotalFramesOf(trimRegions) ==
    FrameCount(getEffectiveDurationMs(trimRegions, SourceDurationMs))

\* ------------------------------------------------------------------ state
VARIABLES
    cfg,           \* the export's inputs and the platform's answers, fixed at Init
    this,          \* the fields of the VideoExporter instance
    heap,          \* the objects the exports created, by creating run
    pc,            \* per export() call: the await it is suspended at
    frameIndex,    \* per export() call: the local frameIndex
    videoElement,  \* per export() call: the local videoElement (its decoder)
    awaitObj,      \* per export() call: the object whose promise is awaited
    joinSet,       \* per export() call: the promises Promise.all was given
    result,        \* per export() call: the ExportResult it resolved with
    raised,        \* per export() call: the error its try block raised
    totalFrames,   \* per export() call: the local totalFrames
    rendered,      \* per export() call: the frames given to renderFrame
    onProgress,    \* per export() call: the values config.onProgress was called with
    encoded,       \* per export() call: the frames its loop gave to encoder.encode
    cancelledAt,   \* per export() call: where it stood when cancel() was called
    overlapped,    \* an export() was called while another had not resolved
    cancels,       \* cancel() calls so far
    faults,        \* environment faults so far
    audioBuffers,  \* audio buffers delivered so far
    tm,            \* the time mapper applied to one input on its own
    bubble,        \* electron/windows.ts: cameraBubbleWindow and the windows made
    recorder       \* useScreenRecorder: its state, refs and startRecording calls

vars == << cfg, this, heap, pc, frameIndex, videoElement, awaitObj, joinSet,
           result, raised, totalFrames, rendered, onProgress, encoded,
           cancelledAt, overlapped, cancels, faults, audioBuffers, tm,
           bubble, recorder >>

NoResult == [pending |-> TRUE]
Success == [success |-> TRUE, blob |-> "blob"]
Failure(msg) == [success |-> FALSE, error |-> msg]

CancelledMsg == "Export cancelled"
UnsupportedMsg == "Video encoding not supported on this system"
NoElementMsg == "Video element not available"
TypeErrorMsg == "TypeError: Cannot read properties of null"
InvalidStateMsg == "InvalidStateError"
LoadFailedMsg == "Failed to load video"

\* the VideoEncoderConfig of initializeEncoder
HardwareConfig ==
    [codec |-> "avc1.640033", width |-> "config.width", height |-> "config.height",
     bitrate |-> "config.bitrate", hardwareAcceleration |-> "prefer-hardware"]

SoftwareConfig == [HardwareConfig EXCEPT !.hardwareAcceleration = "prefer-software"]

\* the fields of a fresh VideoExporter
InitThis ==
    [decoder |-> 0, renderer |-> 0, encoder |-> 0, audioEncoder |-> 0,
     audioContext |-> 0, audioSource |-> 0, audioProcessor |-> 0, muxer |-> 0,
     cancelled |-> FALSE, encodeQueue |-> 0, muxingPromises |-> << >>,
     chunkCount |-> 0, audioChunkCount |-> 0,
     videoDescription |-> "undefined", videoColorSpace |-> "undefined"]

\* the kinds of sub-resource cleanup() releases
ResourceKinds ==
    {"audioProcessor", "audioSource", "audioContext", "audioEncoder", "encoder",
     "decoder", "renderer"}

InitHeap ==
    [decoderSt |-> [r \in Runs |-> "none"],
     currentTime |-> [r \in Runs |-> 0],
     rendererSt |-> [r \in Runs |-> "none"],
     renderCalls |-> [r \in Runs |-> 0],
     encoderSt |-> [r \in Runs |-> "none"],
     encPending |-> [r \in Runs |-> 0],
     videoDescription |-> [r \in Runs |-> "undefined"],
     encodeCalls |-> [r \in Runs |-> 0],
     audioEncodeCalls |-> [r \in Runs |-> 0],
     flushCalls |-> [r \in Runs |-> 0],
     audioFlushCalls |-> [r \in Runs |-> 0],
     probes |-> [r \in Runs |-> << >>],
     configures |-> [r \in Runs |-> << >>],
     audioEncoderSt |-> [r \in Runs |-> "none"],
     audPending |-> [r \in Runs |-> 0],
     audioContextSt |-> [r \in Runs |-> "none"],
     audioSourceSt |-> [r \in Runs |-> "none"],
     audioProcessorSt |-> [r \in Runs |-> "none"],
     muxerSt |-> [r \in Runs |-> "none"],
     audioInit |-> [r \in Runs |-> "none"],
     errored |-> [r \in Runs |-> FALSE],
     released |-> [k \in ResourceKinds |-> [r \in Runs |-> 0]],
     tasks |-> << >>]

\* the whole state as one value, for the operators that compute a step
Cur ==
    [this |-> this, heap |-> heap, pc |-> pc, frameIndex |-> frameIndex,
     videoElement |-> videoElement, awaitObj |-> awaitObj, joinSet |-> joinSet,
     result |-> result, raised |-> raised, totalFrames |-> totalFrames,
     rendered |-> rendered, onProgress |-> onProgress, encoded |-> encoded]

\* the step's outcome, computed once, becomes the next state
Commit(S) ==
    \E T \in {S} :
        /\ this' = T.this
        /\ heap' = T.heap
        /\ pc' = T.pc
        /\ frameIndex' = T.frameIndex
        /\ videoElement' = T.videoElement
        /\ awaitObj' = T.awaitObj
        /\ joinSet' = T.joinSet
        /\ result' = T.result
        /\ raised' = T.raised
        /\ totalFrames' = T.totalFrames
        /\ rendered' = T.rendered
        /\ onProgress' = T.onProgress
        /\ encoded' = T.encoded

\* ---------------------------------------------------------------- cleanup
\* VideoEncoder.close() / AudioEncoder.close(): closed, queued work dropped
CloseEncoder(h, e) ==
    [h EXCEPT !.encoderSt[e] = "closed", !.encPending[e] = 0]

CloseAudioEncoder(h, a) ==
    [h EXCEPT !.audioEncoderSt[a] = "closed", !.audPending[a] = 0]

\* VideoFileDecoder.destroy(): the element is paused and its src cleared
DestroyDecoder(h, d) ==
    [h EXCEPT !.decoderSt[d] = "destroyed", !.currentTime[d] = 0]

\* one more release call (disconnect, close, destroy) on object o of a kind
Released(h, kind, o) == [h EXCEPT !.released[kind][o] = @ + 1]

\* the release call of this kind throws (or its promise rejects): the object
\* is left as it was, the catch block logs
Fails(kind) == kind \in cfg.failingReleases

CleanupAudioProcessor(t, h) ==
    IF t.audioProcessor # 0 /\ ~Fails("audioProcessor")
    THEN Released([h EXCEPT !.audioProcessorSt[t.audioProcessor] = "disconnected"],
                  "audioProcessor", t.audioProcessor)
    ELSE h

CleanupAudioSource(t, h) ==
    IF t.audioSource # 0 /\ ~Fails("audioSource")
    THEN Released([h EXCEPT !.audioSourceSt[t.audioSource] = "disconnected"],
                  "audioSource", t.audioSource)
    ELSE h

CleanupAudioContext(t, h) ==
    IF t.audioContext # 0 /\ ~Fails("audioContext")
    THEN Released([h EXCEPT !.audioContextSt[t.audioContext] = "closed"],
                  "audioContext", t.audioContext)
    ELSE h

CleanupAudioGraph(t, h) ==
    CleanupAudioContext(t, CleanupAudioSource(t, CleanupAudioProcessor(t, h)))

CleanupAudioEncoder(t, h) ==
    IF /\ t.audioEncoder # 0 /\ h.audioEncoderSt[t.audioEncoder] = "configured"
       /\ ~Fails("audioEncoder")
    THEN Released(CloseAudioEncoder(h, t.audioEncoder), "audioEncoder", t.audioEncoder)
    ELSE h

CleanupEncoder(t, h) ==
    IF /\ t.encoder # 0 /\ h.encoderSt[t.encoder] = "configured"
       /\ ~Fails("encoder")
    THEN Released(CloseEncoder(h, t.encoder), "encoder", t.encoder)
    ELSE h

CleanupDecoder(t, h) ==
    IF t.decoder # 0 /\ ~Fails("decoder")
    THEN Released(DestroyDecoder(h, t.decoder), "decoder", t.decoder)
    ELSE h

CleanupRenderer(t, h) ==
    IF t.renderer # 0 /\ ~Fails("renderer")
    THEN Released([h EXCEPT !.rendererSt[t.renderer] = "destroyed"],
                  "renderer", t.renderer)
    ELSE h

\* cleanup() without the assignments of null: the references stay in place
CleanupFieldsKeepRefs(t) ==
    [t EXCEPT !.muxer = 0, !.encodeQueue = 0, !.muxingPromises = << >>,
              !.chunkCount = 0, !.audioChunkCount = 0,
              !.videoDescription = "undefined", !.videoColorSpace = "undefined"]

\* cleanup() without its trailing resets of the counters and captured values
CleanupFieldsKeepCounters(t) ==
    [t EXCEPT !.audioProcessor = 0, !.audioSource = 0, !.audioContext = 0,
              !.audioEncoder = 0, !.encoder = 0, !.decoder = 0, !.renderer = 0,
              !.muxer = 0]

\* the fields after cleanup(): every reference null, every counter reset
CleanupFields(t) ==
    [t EXCEPT !.audioProcessor = 0, !.audioSource = 0, !.audioContext = 0,
              !.audioEncoder = 0, !.encoder = 0, !.decoder = 0, !.renderer = 0,
              !.muxer = 0, !.encodeQueue = 0, !.muxingPromises = << >>,
              !.chunkCount = 0, !.audioChunkCount = 0,
              !.videoDescription = "undefined", !.videoColorSpace = "undefined"]

\* cleanup() without its try/catch blocks: the first failing release ends it
cleanupUnguarded(S) ==
    LET t == S.this
        h1 == CleanupAudioGraph(t, S.heap)
        h2 == CleanupAudioEncoder(t, h1)
        h3 == CleanupEncoder(t, h2)
        h4 == CleanupDecoder(t, h3)
        h5 == CleanupRenderer(t, h4)
    IN  IF \/ t.audioProcessor # 0 /\ Fails("audioProcessor")
           \/ t.audioSource # 0 /\ Fails("audioSource")
        THEN S
        ELSE IF \/ t.audioEncoder # 0 /\ Fails("audioEncoder")
                \/ t.encoder # 0 /\ Fails("encoder")
        THEN [S EXCEPT !.heap = h1,
                       !.this = [t EXCEPT !.audioProcessor = 0, !.audioSource = 0,
                                          !.audioContext = 0]]
        ELSE [S EXCEPT !.this = CleanupFields(t), !.heap = h5]

cleanup(S) ==
    LET t == S.this
        h1 == CleanupAudioGraph(t, S.heap)
        h2 == CleanupAudioEncoder(t, h1)
        h3 == CleanupEncoder(t, h2)
        h4 == CleanupDecoder(t, h3)
        h5 == CleanupRenderer(t, h4)
    IN  [S EXCEPT !.this = CleanupFields(t), !.heap = h5]

\* export() without its catch block: the error rejects the promise
ThrowRejects(r, msg, S) ==
    cleanup([S EXCEPT !.result[r] = [rejected |-> msg], !.raised[r] = msg,
                      !.pc[r] = "done"])

\* the catch and finally blocks of export(): the error becomes the result
Throw(r, msg, S) ==
    cleanup([S EXCEPT !.result[r] = Failure(msg), !.raised[r] = msg,
                      !.pc[r] = "done"])

\* a return statement inside the try block, then the finally block
Return(r, res, S) ==
    cleanup([S EXCEPT !.result[r] = res, !.pc[r] = "done"])

\* ------------------------------------------------------- export(): the tail
\* Math.ceil(this.getEffectiveDuration(videoInfo.duration) * frameRate)
TotalFrames == TotalFramesOf(cfg.trimRegions)

Settled(h, k) == h.tasks[k].st # "pending"

\* await Promise.all(this.muxingPromises): the promises in the array now
Join(r, S) ==
    [S EXCEPT !.joinSet[r] = { S.this.muxingPromises[k] : k \in DOMAIN S.this.muxingPromises },
              !.awaitObj[r] = 0,
              !.pc[r] = "join"]

\* if (this.audioEncoder && this.audioEncoder.state === 'configured') flush
AfterVideoFlush(r, S) ==
    LET a == S.this.audioEncoder IN
    IF a # 0 /\ S.heap.audioEncoderSt[a] = "configured"
    THEN [S EXCEPT !.pc[r] = "flushAudio", !.awaitObj[r] = a,
                   !.heap.audioFlushCalls[a] = @ + 1]
    ELSE Join(r, S)

\* after the frame loop: the cancelled return, else the video encoder's flush
LoopExit(r, S) ==
    LET e == S.this.encoder IN
    IF S.this.cancelled THEN Return(r, Failure(CancelledMsg), S)
    ELSE IF e # 0 /\ S.heap.encoderSt[e] = "configured"
         THEN [S EXCEPT !.pc[r] = "flushVideo", !.awaitObj[r] = e,
                        !.heap.flushCalls[e] = @ + 1]
         ELSE AfterVideoFlush(r, S)

\* ---------------------------------------------------- export(): frame loop
\* sourceTimestamp without the mapping: the effective time in microseconds
SourceTimestampUnmapped(i) == i * FramePeriodMs * 1000

\* sourceTimestamp = sourceTimeMs * 1000, with
\* sourceTimeMs = this.mapEffectiveToSourceTime(frameIndex * timeStep)
SourceTimestamp(i) == mapEffectiveToSourceTime(cfg.trimRegions, i * FramePeriodMs) * 1000

\* the arguments of this.renderer.renderFrame(videoFrame, sourceTimestamp)
RenderedFrame(i) == [frame |-> i, sourceTimestamp |-> SourceTimestamp(i)]

\* new VideoFrame(videoElement), then this.renderer!.renderFrame(...)
AfterPosition(r, S) ==
    LET v == S.videoElement[r]
        n == S.this.renderer
    IN  IF S.heap.decoderSt[v] # "open" THEN Throw(r, InvalidStateMsg, S)
        ELSE IF n = 0 THEN Throw(r, TypeErrorMsg, S)
        ELSE [S EXCEPT !.heap.renderCalls[n] = @ + 1,
                       !.rendered[r] = Append(@, RenderedFrame(S.frameIndex[r])),
                       !.awaitObj[r] = n,
                       !.pc[r] = "render"]

\* the loop condition and the seek (or first-frame wait) of one iteration
LoopTop(r, S) ==
    LET i == S.frameIndex[r]
        v == S.videoElement[r]
        sourceTimeMs == mapEffectiveToSourceTime(cfg.trimRegions, i * FramePeriodMs)
    IN  IF i < S.totalFrames[r] /\ ~S.this.cancelled
        THEN IF S.heap.currentTime[v] # sourceTimeMs
             THEN [S EXCEPT !.heap.currentTime[v] = sourceTimeMs,
                            !.awaitObj[r] = v,
                            !.pc[r] = "seek"]
             ELSE IF i = 0
                  THEN [S EXCEPT !.awaitObj[r] = v, !.pc[r] = "firstFrame"]
                  ELSE AfterPosition(r, S)
        ELSE LoopExit(r, S)

\* frameDuration = 1_000_000 / this.config.frameRate, in microseconds
FrameDurationUs == 1000000 \div FrameRate

\* the frame stamped with the source instant it was taken at instead of its
\* output timestamp
FrameTimestampFromSource(i) == SourceTimestamp(i)

\* timestamp = i * frameDuration
FrameTimestamp(i) == i * FrameDurationUs

\* new VideoFrame(canvas, {timestamp, duration: frameDuration, ...}) as it is
\* given to this.encoder.encode(exportFrame, {keyFrame: i % 150 === 0})
ExportFrame(i) ==
    [frame |-> i, timestamp |-> FrameTimestamp(i), duration |-> FrameDurationUs,
     keyFrame |-> (i % 150 = 0)]

\* this.config.onProgress({currentFrame: frameIndex, totalFrames, ...})
ReportProgress(r, S) ==
    [S EXCEPT !.onProgress[r] =
        Append(@, [currentFrame |-> S.frameIndex[r], totalFrames |-> S.totalFrames[r]])]

\* the frame loop without its progress report for frames that were not encoded
SubmitReportsEncodedOnly(r, S) ==
    LET e == S.this.encoder IN
    IF e # 0 /\ S.heap.encoderSt[e] = "configured"
    THEN LoopTop(r, ReportProgress(r,
            [S EXCEPT !.this.encodeQueue = @ + 1,
                      !.heap.encPending[e] = @ + 1,
                      !.heap.encodeCalls[e] = @ + 1,
                      !.encoded[r] = Append(@, ExportFrame(S.frameIndex[r])),
                      !.frameIndex[r] = @ + 1]))
    ELSE LoopTop(r, [S EXCEPT !.frameIndex[r] = @ + 1])

\* encode (or the 'Encoder not ready' warning), frameIndex++, the progress
\* report, next iteration
Submit(r, S) ==
    LET e == S.this.encoder
        S1 == IF e # 0 /\ S.heap.encoderSt[e] = "configured"
              THEN [S EXCEPT !.this.encodeQueue = @ + 1,
                             !.heap.encPending[e] = @ + 1,
                             !.heap.encodeCalls[e] = @ + 1,
                             !.encoded[r] = Append(@, ExportFrame(S.frameIndex[r]))]
              ELSE S
    IN  LoopTop(r, ReportProgress(r, [S1 EXCEPT !.frameIndex[r] = @ + 1]))

\* the frame loop without its wait on the encode queue
BackpressureSkipped(r, S) == Submit(r, S)

\* while (this.encodeQueue >= this.MAX_ENCODE_QUEUE && !this.cancelled) await
BackpressureCheck(r, S) ==
    IF S.this.encodeQueue >= MAX_ENCODE_QUEUE /\ ~S.this.cancelled
    THEN [S EXCEPT !.pc[r] = "backpressure", !.awaitObj[r] = 0]
    ELSE Submit(r, S)

\* after renderFrame: this.renderer!.getCanvas(), the export frame, the queue
AfterRender(r, S) ==
    IF S.this.renderer = 0 THEN Throw(r, TypeErrorMsg, S)
    ELSE BackpressureCheck(r, S)

\* ------------------------------------------------- export(): initialisation
\* effectiveDuration, totalFrames, frameIndex = 0, then the frame loop
EnterLoop(r, S) ==
    LoopTop(r, [S EXCEPT !.totalFrames[r] = TotalFrames, !.frameIndex[r] = 0])

\* extractAudio returns at once without audio encoder, context or source
EnterExtractAudio(r, S) ==
    LET t == S.this IN
    IF cfg.hasAudio /\ t.audioEncoder # 0 /\ t.audioContext # 0 /\ t.audioSource # 0
    THEN [S EXCEPT !.pc[r] = "extractAudio", !.awaitObj[r] = S.videoElement[r]]
    ELSE EnterLoop(r, S)

\* after muxer.initialize(): this.decoder.getVideoElement() and its null check
AfterMuxerInit(r, S) ==
    LET d == S.this.decoder IN
    IF d = 0 THEN Throw(r, TypeErrorMsg, S)
    ELSE IF S.heap.decoderSt[d] # "open" THEN Throw(r, NoElementMsg, S)
    ELSE EnterExtractAudio(r, [S EXCEPT !.videoElement[r] = d, !.frameIndex[r] = 0])

\* this.muxer = new VideoMuxer(...); await this.muxer.initialize()
CreateMuxer(r, S) ==
    [S EXCEPT !.this.muxer = r,
              !.heap.muxerSt[r] = "created",
              !.awaitObj[r] = r,
              !.pc[r] = "muxerInit"]

\* initializeAudioEncoder up to its await of AudioEncoder.isConfigSupported
AfterEncoderInit(r, S) ==
    LET d == S.this.decoder IN
    IF cfg.hasAudio /\ d # 0 /\ S.heap.decoderSt[d] = "open"
    THEN [S EXCEPT !.this.audioContext = r,
                   !.this.audioSource = r,
                   !.heap.audioContextSt[r] = "open",
                   !.heap.audioSourceSt[r] = "connected",
                   !.heap.audioEncoderSt[r] = "unconfigured",
                   !.awaitObj[r] = r,
                   !.pc[r] = "audioProbe"]
    ELSE CreateMuxer(r, S)

\* initializeAudioEncoder after the probe: configure, the processor, play()
AfterAudioProbe(r, S) ==
    IF ~cfg.audioSupported
    THEN CreateMuxer(r, [S EXCEPT !.heap.audioInit[r] = "unsupported"])
    ELSE CreateMuxer(r,
            [S EXCEPT !.heap.audioEncoderSt[r] = "configured",
                      !.this.audioEncoder = r,
                      !.heap.audioProcessorSt[r] = "connected",
                      !.this.audioProcessor = r,
                      !.heap.audioInit[r] = "ready"])

\* the catch block of initializeAudioEncoder when the probe itself rejects
AudioProbeFailed(r, S) ==
    CreateMuxer(r, [S EXCEPT !.heap.audioInit[r] = "failed"])

\* the catch block when building the processor throws: the encoder is
\* configured and assigned by then, the processor is not
AudioGraphFailed(r, S) ==
    CreateMuxer(r,
        [S EXCEPT !.heap.audioEncoderSt[r] = "configured",
                  !.this.audioEncoder = r,
                  !.heap.audioInit[r] = "failed"])

\* this.encoder.configure(encoderConfig) at the end of initializeEncoder
Configure(r, config, S) ==
    LET e == S.this.encoder IN
    IF e = 0 THEN Throw(r, TypeErrorMsg, S)
    ELSE IF S.heap.encoderSt[e] = "closed" THEN Throw(r, InvalidStateMsg, S)
    ELSE AfterEncoderInit(r,
            [S EXCEPT !.heap.encoderSt[e] = "configured",
                      !.heap.configures[r] = Append(@, config)])

\* initializeEncoder without the probe's answer: always the hardware configuration
AfterHardwareProbeNoFallback(r, S) == Configure(r, HardwareConfig, S)

\* after the hardware probe: configure, or probe the software configuration
AfterHardwareProbe(r, S) ==
    IF cfg.hwSupported THEN Configure(r, HardwareConfig, S)
    ELSE [S EXCEPT !.heap.probes[r] = Append(@, SoftwareConfig),
                   !.pc[r] = "swProbe"]

\* initializeEncoder without the check of the software probe's answer
AfterSoftwareProbeUnchecked(r, S) == Configure(r, SoftwareConfig, S)

\* after the software probe: the fatal error, or configure
AfterSoftwareProbe(r, S) ==
    IF ~cfg.swSupported THEN Throw(r, UnsupportedMsg, S)
    ELSE Configure(r, SoftwareConfig, S)

\* initializeEncoder up to its first await of VideoEncoder.isConfigSupported
initializeEncoder(r, S) ==
    [S EXCEPT !.this.encodeQueue = 0,
              !.this.muxingPromises = << >>,
              !.this.chunkCount = 0,
              !.this.encoder = r,
              !.heap.encoderSt[r] = "unconfigured",
              !.heap.probes[r] = Append(@, HardwareConfig),
              !.awaitObj[r] = r,
              !.pc[r] = "hwProbe"]

\* after loadVideo: this.renderer = new FrameRenderer(...); await initialize()
AfterLoadVideo(r, S) ==
    [S EXCEPT !.this.renderer = r,
              !.heap.rendererSt[r] = "open",
              !.awaitObj[r] = r,
              !.pc[r] = "rendererInit"]

\* export() up to its first await: cleanup, the flag, the decoder, loadVideo
BeginExport(r, S) ==
    LET C == cleanup(S) IN
    [C EXCEPT !.this.cancelled = FALSE,
              !.this.decoder = r,
              !.heap.decoderSt[r] = "open",
              !.awaitObj[r] = r,
              !.pc[r] = "loadVideo"]

\* ------------------------------------------------------------------- Init
\* the trim lists the exports are run with
ExportTrimChoices ==
    { << >>, << [startMs |-> FramePeriodMs, endMs |-> 2 * FramePeriodMs] >> }

\* the platform's answers: software is only asked when hardware says no, and
\* the audio codec only when the source has an audio track
Platforms ==
    { c \in [hwSupported : BOOLEAN, swSupported : BOOLEAN,
             hasAudio : BOOLEAN, audioSupported : BOOLEAN] :
        /\ c.hwSupported => c.swSupported
        /\ c.audioSupported => c.hasAudio }

\* meta.decoderConfig of the video encoder's first output: whether it is
\* there, and whether it holds a description and a colorSpace
FullMeta == [decoderConfig |-> TRUE, description |-> TRUE, colorSpace |-> TRUE]

\* the meta of the outputs after the first: no decoderConfig
NoMeta == [decoderConfig |-> FALSE, description |-> FALSE, colorSpace |-> FALSE]

Configs ==
    { [trimRegions |-> tr, hwSupported |-> c.hwSupported,
       swSupported |-> c.swSupported, hasAudio |-> c.hasAudio,
       audioSupported |-> c.audioSupported,
       videoMeta |-> FullMeta, audioBufferLimit |-> MaxAudioBuffers,
       failingReleases |-> {}] :
        tr \in ExportTrimChoices, c \in Platforms }

TmIdle == [pc |-> "idle", trims |-> << >>, t1 |-> 0, t2 |-> 0, out1 |-> 0, out2 |-> 0]

\* let cameraBubbleWindow: BrowserWindow | null = null, no window made yet
Windows == 1..MaxWindows

InitBubble ==
    [cameraBubbleWindow |-> 0, st |-> [w \in Windows |-> "none"]]

\* useState(false), useRef(null) for mediaRecorder and stream; no
\* startRecording() call made yet
Starts == 1..MaxStarts

InitRecorder ==
    [recording |-> FALSE, mediaRecorder |-> 0, stream |-> 0,
     pc |-> [r \in Starts |-> "idle"],
     recorders |-> [r \in Starts |-> [st |-> "none", stream |-> 0]],
     tracks |-> [r \in Starts |-> "none"]]

InitExporter ==
    /\ bubble = InitBubble
    /\ recorder = InitRecorder
    /\ this = InitThis
    /\ heap = InitHeap
    /\ pc = [r \in Runs |-> "idle"]
    /\ frameIndex = [r \in Runs |-> 0]
    /\ videoElement = [r \in Runs |-> 0]
    /\ awaitObj = [r \in Runs |-> 0]
    /\ joinSet = [r \in Runs |-> {}]
    /\ result = [r \in Runs |-> NoResult]
    /\ raised = [r \in Runs |-> "none"]
    /\ totalFrames = [r \in Runs |-> 0]
    /\ rendered = [r \in Runs |-> << >>]
    /\ onProgress = [r \in Runs |-> << >>]
    /\ encoded = [r \in Runs |-> << >>]
    /\ cancelledAt = [r \in Runs |-> "none"]
    /\ overlapped = FALSE
    /\ cancels = 0
    /\ faults = 0
    /\ audioBuffers = 0

Init ==
    /\ cfg \in Configs
    /\ InitExporter
    /\ tm = TmIdle

\* ------------------------------------------------------ actions: export()
Active(r) == pc[r] \notin {"idle", "done"}

Rest == UNCHANGED << cfg, cancelledAt, overlapped, cancels, faults, audioBuffers, tm,
           bubble, recorder >>

Fault ==
    /\ faults < MaxFaults
    /\ faults' = faults + 1
    /\ UNCHANGED << cfg, cancelledAt, overlapped, cancels, audioBuffers, tm,
           bubble, recorder >>

\* a call of export()
StartExport(r) ==
    /\ pc[r] = "idle"
    /\ \A q \in Runs : q < r => pc[q] # "idle"
    /\ Commit(BeginExport(r, Cur))
    /\ overlapped' = (overlapped \/ \E q \in Runs : Active(q))
    /\ UNCHANGED << cfg, cancelledAt, cancels, faults, audioBuffers, tm,
           bubble, recorder >>

\* 'loadedmetadata' resolves loadVideo
LoadVideoResolve(r) ==
    /\ pc[r] = "loadVideo"
    /\ heap.decoderSt[r] = "open"
    /\ Commit(AfterLoadVideo(r, Cur))
    /\ Rest

\* the 'error' event of an element whose src was cleared rejects loadVideo
LoadVideoAborted(r) ==
    /\ pc[r] = "loadVideo"
    /\ heap.decoderSt[r] = "destroyed"
    /\ Commit(Throw(r, LoadFailedMsg, Cur))
    /\ Rest

\* the 'error' event of a source that does not load rejects loadVideo
LoadVideoReject(r) ==
    /\ pc[r] = "loadVideo"
    /\ heap.decoderSt[r] = "open"
    /\ Commit(Throw(r, LoadFailedMsg, Cur))
    /\ Fault

RendererInitResolve(r) ==
    /\ pc[r] = "rendererInit"
    /\ Commit(initializeEncoder(r, Cur))
    /\ Rest

RendererInitReject(r) ==
    /\ pc[r] = "rendererInit"
    /\ Commit(Throw(r, "renderer.initialize failed", Cur))
    /\ Fault

HardwareProbeDone(r) ==
    /\ pc[r] = "hwProbe"
    /\ Commit(AfterHardwareProbe(r, Cur))
    /\ Rest

SoftwareProbeDone(r) ==
    /\ pc[r] = "swProbe"
    /\ Commit(AfterSoftwareProbe(r, Cur))
    /\ Rest

AudioProbeDone(r) ==
    /\ pc[r] = "audioProbe"
    /\ Commit(AfterAudioProbe(r, Cur))
    /\ Rest

\* AudioEncoder.isConfigSupported rejects
AudioProbeReject(r) ==
    /\ pc[r] = "audioProbe"
    /\ Commit(AudioProbeFailed(r, Cur))
    /\ Fault

\* createScriptProcessor or connect throws after audioEncoder.configure
AudioGraphThrows(r) ==
    /\ pc[r] = "audioProbe"
    /\ cfg.audioSupported
    /\ Commit(AudioGraphFailed(r, Cur))
    /\ Fault

MuxerInitResolve(r) ==
    /\ pc[r] = "muxerInit"
    /\ Commit(AfterMuxerInit(r, [Cur EXCEPT !.heap.muxerSt[r] = "initialized"]))
    /\ Rest

MuxerInitReject(r) ==
    /\ pc[r] = "muxerInit"
    /\ Commit(Throw(r, "muxer.initialize failed", Cur))
    /\ Fault

\* the playback of extractAudio ends (timeout, 'ended', or the cancelled check)
ExtractAudioDone(r) ==
    /\ pc[r] = "extractAudio"
    /\ LET v == videoElement[r]
           S == IF heap.decoderSt[v] = "open"
                THEN [Cur EXCEPT !.heap.currentTime[v] = SourceDurationMs]
                ELSE Cur
       IN  Commit(EnterLoop(r, S))
    /\ Rest

\* videoElement.play().catch(reject) in the branch without trim regions
ExtractAudioReject(r) ==
    /\ pc[r] = "extractAudio"
    /\ cfg.trimRegions = << >>
    /\ Commit(Throw(r, "play() failed", Cur))
    /\ Fault

\* 'seeked' on an element that still has its source
SeekDone(r) ==
    /\ pc[r] = "seek"
    /\ heap.decoderSt[awaitObj[r]] = "open"
    /\ Commit(AfterPosition(r, Cur))
    /\ Rest

\* requestVideoFrameCallback fires
FirstFrameReady(r) ==
    /\ pc[r] = "firstFrame"
    /\ heap.decoderSt[awaitObj[r]] = "open"
    /\ Commit(AfterPosition(r, Cur))
    /\ Rest

RenderResolve(r) ==
    /\ pc[r] = "render"
    /\ Commit(AfterRender(r, Cur))
    /\ Rest

RenderReject(r) ==
    /\ pc[r] = "render"
    /\ Commit(Throw(r, "renderFrame failed", Cur))
    /\ Fault

\* setTimeout(resolve, 0) of the backpressure loop fires
BackpressurePoll(r) ==
    /\ pc[r] = "backpressure"
    /\ Commit(BackpressureCheck(r, Cur))
    /\ Rest

\* encoder.flush() resolves once every queued frame was output
FlushVideoResolve(r) ==
    /\ pc[r] = "flushVideo"
    /\ heap.encoderSt[awaitObj[r]] = "configured"
    /\ heap.encPending[awaitObj[r]] = 0
    /\ Commit(AfterVideoFlush(r, Cur))
    /\ Rest

\* encoder.flush() rejects when the encoder was closed meanwhile
FlushVideoReject(r) ==
    /\ pc[r] = "flushVideo"
    /\ heap.encoderSt[awaitObj[r]] = "closed"
    /\ Commit(Throw(r, "AbortError", Cur))
    /\ Rest

FlushAudioResolve(r) ==
    /\ pc[r] = "flushAudio"
    /\ heap.audioEncoderSt[awaitObj[r]] = "configured"
    /\ heap.audPending[awaitObj[r]] = 0
    /\ Commit(Join(r, Cur))
    /\ Rest

FlushAudioReject(r) ==
    /\ pc[r] = "flushAudio"
    /\ heap.audioEncoderSt[awaitObj[r]] = "closed"
    /\ Commit(Throw(r, "AbortError", Cur))
    /\ Rest

\* Promise.all resolves; this.muxer!.finalize() is called
JoinDone(r) ==
    /\ pc[r] = "join"
    /\ \A k \in joinSet[r] : Settled(heap, k)
    /\ LET m == this.muxer
           S == [Cur EXCEPT !.joinSet[r] = {}]
       IN  Commit(IF m = 0 THEN Throw(r, TypeErrorMsg, S)
                  ELSE [S EXCEPT !.heap.muxerSt[m] = "finalizing",
                                 !.awaitObj[r] = m,
                                 !.pc[r] = "finalize"])
    /\ Rest

FinalizeResolve(r) ==
    /\ pc[r] = "finalize"
    /\ Commit(Return(r, Success, [Cur EXCEPT !.heap.muxerSt[awaitObj[r]] = "finalized"]))
    /\ Rest

FinalizeReject(r) ==
    /\ pc[r] = "finalize"
    /\ Commit(Throw(r, "muxer.finalize failed", Cur))
    /\ Fault

\* ------------------------------------------- actions: cancel and callbacks
\* cancel(): the flag, then cleanup()
Cancel ==
    /\ cancels < MaxCancels
    /\ cancels' = cancels + 1
    /\ Commit(cleanup([Cur EXCEPT !.this.cancelled = TRUE]))
    /\ cancelledAt' = [r \in Runs |->
            IF Active(r) /\ cancelledAt[r] = "none" THEN pc[r] ELSE cancelledAt[r]]
    /\ UNCHANGED << cfg, overlapped, faults, audioBuffers, tm,
           bubble, recorder >>

\* the write tasks dispatched last-in first-out: the new task ahead of the others
StartWritePrepended(S, track, chunk, meta, first) ==
    LET m == S.this.muxer
        task == [muxer |-> m, track |-> track, chunk |-> chunk, meta |-> meta,
                 first |-> first,
                 muxerSt |-> IF m = 0 THEN "null" ELSE S.heap.muxerSt[m],
                 st |-> IF m = 0 THEN "failed" ELSE "pending"]
    IN  [S EXCEPT !.heap.tasks = << task >> \o @,
                  !.this.muxingPromises = Append(@, Len(S.heap.tasks) + 1)]

\* a mux write task: the async function of an output callback up to its
\* await, which calls this.muxer!.addVideoChunk / addAudioChunk (a TypeError
\* on a null muxer, caught and logged) before the callback goes on
StartWrite(S, track, chunk, meta, first) ==
    LET m == S.this.muxer
        task == [muxer |-> m, track |-> track, chunk |-> chunk, meta |-> meta,
                 first |-> first,
                 muxerSt |-> IF m = 0 THEN "null" ELSE S.heap.muxerSt[m],
                 st |-> IF m = 0 THEN "failed" ELSE "pending"]
    IN  [S EXCEPT !.heap.tasks = Append(@, task),
                  !.this.muxingPromises = Append(@, Len(S.heap.tasks) + 1)]

\* the metadata handed to addVideoChunk: for the first chunk with a captured
\* description the decoderConfig built here, else the encoder's own meta
VideoChunkMeta(t, isFirstChunk, meta) ==
    IF isFirstChunk /\ t.videoDescription # "undefined"
    THEN [decoderConfig |-> TRUE, description |-> TRUE,
          colorSpace |-> IF t.videoColorSpace # "undefined" THEN "encoder" ELSE "bt709"]
    ELSE [decoderConfig |-> meta.decoderConfig, description |-> meta.description,
          colorSpace |-> IF meta.colorSpace THEN "encoder" ELSE "none"]

\* the captures at the head of the output callback of encoder e
CaptureMeta(S, e, meta) ==
    LET S0 == IF meta.description /\ S.heap.videoDescription[e] = "undefined"
              THEN [S EXCEPT !.heap.videoDescription[e] = "description",
                             !.this.videoDescription = "description"]
              ELSE S
    IN  IF meta.colorSpace /\ S0.this.videoColorSpace = "undefined"
        THEN [S0 EXCEPT !.this.videoColorSpace = "colorSpace"]
        ELSE S0

\* the output callback without its last statement, this.encodeQueue--
VideoOutputCallbackNoDecrement(S, e, chunk, meta) ==
    LET S0 == CaptureMeta(S, e, meta)
        isFirstChunk == S0.this.chunkCount = 0
    IN  StartWrite([S0 EXCEPT !.this.chunkCount = @ + 1], "video", chunk,
                   VideoChunkMeta(S0.this, isFirstChunk, meta), isFirstChunk)

\* the output callback of video encoder e for its chunk number `chunk`
VideoOutputCallback(S, e, chunk, meta) ==
    LET S0 == CaptureMeta(S, e, meta)
        isFirstChunk == S0.this.chunkCount = 0
        S1 == StartWrite([S0 EXCEPT !.this.chunkCount = @ + 1], "video", chunk,
                         VideoChunkMeta(S0.this, isFirstChunk, meta), isFirstChunk)
    IN  [S1 EXCEPT !.this.encodeQueue = @ - 1]

\* the chunks encoder e has emitted: every frame it was given and does not
\* hold any more (an encoder that emits is open and has dropped none)
Emitted(h, e) == h.encodeCalls[e] - h.encPending[e]

\* the encoder emits its next chunk; the first one carries cfg.videoMeta
EncoderOutput(e) ==
    /\ heap.encoderSt[e] = "configured"
    /\ heap.encPending[e] > 0
    /\ Commit(VideoOutputCallback(
            [Cur EXCEPT !.heap.encPending[e] = @ - 1],
            e, Emitted(heap, e) + 1,
            IF Emitted(heap, e) = 0 THEN cfg.videoMeta ELSE NoMeta))
    /\ Rest

\* the error callback of the video encoder; the encoder closes itself first
EncoderErrorCallback(S) == [S EXCEPT !.this.cancelled = TRUE]

EncoderError(e) ==
    /\ heap.encoderSt[e] = "configured"
    /\ Commit(EncoderErrorCallback(
            [Cur EXCEPT !.heap = [CloseEncoder(@, e) EXCEPT !.errored[e] = TRUE]]))
    /\ Fault

\* processor.onaudioprocess: one buffer to this.audioEncoder.encode
AudioProcess(p) ==
    /\ heap.audioProcessorSt[p] = "connected"
    /\ heap.audioContextSt[p] = "open"
    /\ audioBuffers < cfg.audioBufferLimit
    /\ this.audioEncoder # 0
    /\ heap.audioEncoderSt[this.audioEncoder] = "configured"
    /\ ~this.cancelled
    /\ Commit([Cur EXCEPT !.heap.audPending[this.audioEncoder] = @ + 1,
                          !.heap.audioEncodeCalls[this.audioEncoder] = @ + 1])
    /\ audioBuffers' = audioBuffers + 1
    /\ UNCHANGED << cfg, cancelledAt, overlapped, cancels, faults, tm,
           bubble, recorder >>

\* the metadata handed to addAudioChunk: {decoderConfig: meta.decoderConfig}
\* for the first chunk when there is one, else the encoder's own meta
AudioChunkMeta(isFirstChunk, meta) ==
    [decoderConfig |-> meta.decoderConfig, description |-> FALSE, colorSpace |-> "none"]

\* the audio output callback returning early on its first chunk
AudioOutputCallbackSkipsFirst(S, chunk, meta) ==
    LET isFirstChunk == S.this.audioChunkCount = 0
        S1 == [S EXCEPT !.this.audioChunkCount = @ + 1]
    IN  IF isFirstChunk THEN S1
        ELSE StartWrite(S1, "audio", chunk, AudioChunkMeta(isFirstChunk, meta), isFirstChunk)

\* the output callback of the audio encoder
AudioOutputCallback(S, chunk, meta) ==
    LET isFirstChunk == S.this.audioChunkCount = 0
    IN  StartWrite([S EXCEPT !.this.audioChunkCount = @ + 1], "audio", chunk,
                   AudioChunkMeta(isFirstChunk, meta), isFirstChunk)

\* meta.decoderConfig of the audio encoder's first output
AudioConfigMeta == [decoderConfig |-> TRUE, description |-> FALSE, colorSpace |-> FALSE]

AudioEmitted(h, a) == h.audioEncodeCalls[a] - h.audPending[a]

\* the audio encoder emits its next chunk; the first one carries the
\* decoderConfig
AudioOutput(a) ==
    /\ heap.audioEncoderSt[a] = "configured"
    /\ heap.audPending[a] > 0
    /\ Commit(AudioOutputCallback(
            [Cur EXCEPT !.heap.audPending[a] = @ - 1],
            AudioEmitted(heap, a) + 1,
            IF AudioEmitted(heap, a) = 0 THEN AudioConfigMeta ELSE NoMeta))
    /\ Rest

\* muxer.addVideoChunk / addAudioChunk resolves
WriteSettle(k) ==
    /\ heap.tasks[k].st = "pending"
    /\ Commit([Cur EXCEPT !.heap.tasks[k].st = "done"])
    /\ Rest

\* the catch block of a write task treating the error as fatal
WriteRejectedCancels(S, k) ==
    [S EXCEPT !.heap.tasks[k].st = "failed", !.this.cancelled = TRUE]

\* the catch block of a write task: the error is logged, the task's promise
\* resolves
WriteRejected(S, k) == [S EXCEPT !.heap.tasks[k].st = "failed"]

\* muxer.addVideoChunk / addAudioChunk rejects
WriteFail(k) ==
    /\ heap.tasks[k].st = "pending"
    /\ Commit(WriteRejected(Cur, k))
    /\ Rest

\* the steps of an export() call on a source without audio track
VideoStep(r) ==
    \/ StartExport(r)
    \/ LoadVideoResolve(r)
    \/ LoadVideoAborted(r)
    \/ RendererInitResolve(r)
    \/ HardwareProbeDone(r)
    \/ MuxerInitResolve(r)
    \/ SeekDone(r)
    \/ FirstFrameReady(r)
    \/ RenderResolve(r)
    \/ BackpressurePoll(r)
    \/ FlushVideoResolve(r)
    \/ FlushVideoReject(r)
    \/ JoinDone(r)
    \/ FinalizeResolve(r)

\* the steps that only an audio track adds
AudioStep(r) ==
    \/ AudioProbeDone(r)
    \/ ExtractAudioDone(r)
    \/ FlushAudioResolve(r)
    \/ FlushAudioReject(r)

\* the promises the environment rejects
FaultStep(r) ==
    \/ LoadVideoReject(r)
    \/ RendererInitReject(r)
    \/ AudioProbeReject(r)
    \/ AudioGraphThrows(r)
    \/ MuxerInitReject(r)
    \/ ExtractAudioReject(r)
    \/ RenderReject(r)
    \/ FinalizeReject(r)

\* one export() call on the instance, with cancel(), faults and audio
Next ==
    \/ VideoStep(1)
    \/ SoftwareProbeDone(1)
    \/ AudioStep(1)
    \/ FaultStep(1)
    \/ Cancel
    \/ \E e \in Runs : EncoderOutput(e)
    \/ \E e \in Runs : EncoderError(e)
    \/ \E p \in Runs : AudioProcess(p)
    \/ \E a \in Runs : AudioOutput(a)
    \/ \E k \in DOMAIN heap.tasks : WriteSettle(k)

Spec == Init /\ [][Next]_vars

\* export() called again on the same instance, also while an earlier call has
\* not resolved; video only, no cancel() and no fault
ReentrantConfig ==
    [trimRegions |-> << >>, hwSupported |-> TRUE, swSupported |-> TRUE,
     hasAudio |-> FALSE, audioSupported |-> FALSE,
     videoMeta |-> FullMeta, audioBufferLimit |-> MaxAudioBuffers,
     failingReleases |-> {}]

InitReentrant ==
    /\ cfg = ReentrantConfig
    /\ InitExporter
    /\ tm = TmIdle

NextReentrant ==
    \/ \E r \in Runs : VideoStep(r)
    \/ \E e \in Runs : EncoderOutput(e)
    \/ \E k \in DOMAIN heap.tasks : WriteSettle(k)

SpecReentrant == InitReentrant /\ [][NextReentrant]_vars

\* the frame loop over trim lists of every shape; video only, with cancel()
\* and encoder errors
HalfPeriodMs == FramePeriodMs \div 2

FrameTrimChoices ==
    { << >>,
      << [startMs |-> 0, endMs |-> HalfPeriodMs] >>,
      << [startMs |-> 0, endMs |-> SourceDurationMs] >>,
      << [startMs |-> FramePeriodMs, endMs |-> SourceDurationMs],
         [startMs |-> 0, endMs |-> FramePeriodMs] >>,
      << [startMs |-> 0, endMs |-> 2 * FramePeriodMs],
         [startMs |-> FramePeriodMs, endMs |-> SourceDurationMs] >>,
      << [startMs |-> 0, endMs |-> SourceDurationMs + FramePeriodMs] >> }

FrameConfigs ==
    { [ReentrantConfig EXCEPT !.trimRegions = tr] : tr \in FrameTrimChoices }

InitFrames ==
    /\ cfg \in FrameConfigs
    /\ InitExporter
    /\ tm = TmIdle

NextFrames ==
    \/ VideoStep(1)
    \/ Cancel
    \/ \E e \in Runs : EncoderOutput(e)
    \/ \E e \in Runs : EncoderError(e)
    \/ \E k \in DOMAIN heap.tasks : WriteSettle(k)

SpecFrames == InitFrames /\ [][NextFrames]_vars

\* the frame loop under fair scheduling: the event loop runs every task that
\* is ready (a resumed await, an encoder output, a settled write); cancel()
\* and encoder errors are the environment's and owe nothing
SpecFramesFair ==
    /\ SpecFrames
    /\ WF_vars(VideoStep(1))
    /\ WF_vars(\E e \in Runs : EncoderOutput(e))
    /\ WF_vars(\E k \in DOMAIN heap.tasks : WriteSettle(k))

\* the chunk path: one export() of a source with audio on a platform that
\* supports it, over what the video encoder attaches to its first output
VideoMetaChoices ==
    { FullMeta,
      [FullMeta EXCEPT !.colorSpace = FALSE],
      [FullMeta EXCEPT !.description = FALSE],
      [FullMeta EXCEPT !.description = FALSE, !.colorSpace = FALSE] }

ChunkConfigs ==
    { [trimRegions |-> << >>, hwSupported |-> TRUE, swSupported |-> TRUE,
       hasAudio |-> TRUE, audioSupported |-> TRUE,
       videoMeta |-> m, audioBufferLimit |-> MaxAudioBuffers + 1,
       failingReleases |-> {}] :
        m \in VideoMetaChoices }

InitChunks ==
    /\ cfg \in ChunkConfigs
    /\ InitExporter
    /\ tm = TmIdle

NextChunks ==
    \/ StartExport(1)
    \/ LoadVideoResolve(1)
    \/ RendererInitResolve(1)
    \/ HardwareProbeDone(1)
    \/ AudioProbeDone(1)
    \/ MuxerInitResolve(1)
    \/ ExtractAudioDone(1)
    \/ SeekDone(1)
    \/ RenderResolve(1)
    \/ BackpressurePoll(1)
    \/ FlushVideoResolve(1)
    \/ FlushAudioResolve(1)
    \/ JoinDone(1)
    \/ FinalizeResolve(1)
    \/ \E e \in Runs : EncoderOutput(e)
    \/ \E p \in Runs : AudioProcess(p)
    \/ \E a \in Runs : AudioOutput(a)
    \/ \E k \in DOMAIN heap.tasks : WriteSettle(k)

SpecChunks == InitChunks /\ [][NextChunks]_vars

\* the chunk path with failing writes: one export() of a source with audio,
\* any of whose mux writes may reject
InitMuxErrors ==
    /\ cfg = [trimRegions |-> << >>, hwSupported |-> TRUE, swSupported |-> TRUE,
              hasAudio |-> TRUE, audioSupported |-> TRUE,
              videoMeta |-> FullMeta, audioBufferLimit |-> MaxAudioBuffers,
              failingReleases |-> {}]
    /\ InitExporter
    /\ tm = TmIdle

NextMuxErrors ==
    \/ NextChunks
    \/ \E k \in DOMAIN heap.tasks : WriteFail(k)

SpecMuxErrors == InitMuxErrors /\ [][NextMuxErrors]_vars

\* cleanup() under failing release calls: one export() of a source with
\* audio, with cancel(), over every set of release steps that fail
CleanupConfigs ==
    { [trimRegions |-> << >>, hwSupported |-> TRUE, swSupported |-> TRUE,
       hasAudio |-> TRUE, audioSupported |-> TRUE,
       videoMeta |-> FullMeta, audioBufferLimit |-> MaxAudioBuffers,
       failingReleases |-> f] :
        f \in SUBSET ResourceKinds }

InitCleanup ==
    /\ cfg \in CleanupConfigs
    /\ InitExporter
    /\ tm = TmIdle

NextCleanup ==
    \/ StartExport(1)
    \/ LoadVideoResolve(1)
    \/ LoadVideoAborted(1)
    \/ RendererInitResolve(1)
    \/ HardwareProbeDone(1)
    \/ MuxerInitResolve(1)
    \/ SeekDone(1)
    \/ RenderResolve(1)
    \/ BackpressurePoll(1)
    \/ FlushVideoResolve(1)
    \/ FlushVideoReject(1)
    \/ JoinDone(1)
    \/ FinalizeResolve(1)
    \/ AudioStep(1)
    \/ Cancel
    \/ \E e \in Runs : EncoderOutput(e)
    \/ \E k \in DOMAIN heap.tasks : WriteSettle(k)

SpecCleanup == InitCleanup /\ [][NextCleanup]_vars

\* ------------------------------------------------ electron/windows.ts
ExporterAndTime == << cfg, this, heap, pc, frameIndex, videoElement, awaitObj,
                      joinSet, result, raised, totalFrames, rendered, onProgress,
                      encoded, cancelledAt, overlapped, cancels, faults,
                      audioBuffers, tm >>

\* cameraBubbleWindow && !cameraBubbleWindow.isDestroyed()
BubbleLive(b) ==
    b.cameraBubbleWindow # 0 /\ b.st[b.cameraBubbleWindow] # "destroyed"

\* win.on('closed', () => { cameraBubbleWindow = null })
OnClosed(b, w) == [b EXCEPT !.cameraBubbleWindow = 0]

\* win.close(): the window is destroyed and 'closed' emitted either before
\* close() returns or in a later task
CloseWindow(b, w, sync) ==
    IF b.st[w] # "open" THEN b
    ELSE IF sync THEN OnClosed([b EXCEPT !.st[w] = "destroyed"], w)
    ELSE [b EXCEPT !.st[w] = "closing"]

createCameraBubbleWindow(w) ==
    /\ bubble.st[w] = "none"
    /\ \A v \in Windows : v < w => bubble.st[v] # "none"
    /\ \E sync \in BOOLEAN :
          LET b1 == IF BubbleLive(bubble)
                    THEN CloseWindow(bubble, bubble.cameraBubbleWindow, sync)
                    ELSE bubble
          IN  bubble' = [b1 EXCEPT !.st[w] = "open", !.cameraBubbleWindow = w]
    /\ UNCHANGED << ExporterAndTime, recorder >>

closeCameraBubbleWindow ==
    /\ BubbleLive(bubble)
    /\ \E sync \in BOOLEAN :
          bubble' = [CloseWindow(bubble, bubble.cameraBubbleWindow, sync)
                        EXCEPT !.cameraBubbleWindow = 0]
    /\ UNCHANGED << ExporterAndTime, recorder >>

\* the 'closed' event of a window whose close() returned before it
Closed(w) ==
    /\ bubble.st[w] = "closing"
    /\ bubble' = OnClosed([bubble EXCEPT !.st[w] = "destroyed"], w)
    /\ UNCHANGED << ExporterAndTime, recorder >>

InitWindows ==
    /\ cfg = ReentrantConfig
    /\ InitExporter
    /\ tm = TmIdle

NextWindows ==
    \/ \E w \in Windows : createCameraBubbleWindow(w)
    \/ closeCameraBubbleWindow
    \/ \E w \in Windows : Closed(w)

SpecWindows == InitWindows /\ [][NextWindows]_vars

\* ------------------------------------------------ useScreenRecorder.ts
\* track.stop() on every track of stream.current, then stream.current = null
StopStream(R) ==
    IF R.stream # 0
    THEN [R EXCEPT !.tracks[R.stream] = "stopped", !.stream = 0]
    ELSE R

\* the catch block of startRecording
StartFailed(R, r) ==
    [StopStream([R EXCEPT !.recording = FALSE]) EXCEPT !.pc[r] = "done"]

\* startRecording up to await window.electronAPI.getSelectedSource()
BeginStart(R, r) ==
    LET R1 == StopStream(R)
        m == R1.mediaRecorder
        R2 == IF m # 0
              THEN [R1 EXCEPT !.recorders[m].st =
                                  IF @ = "recording" THEN "stopping" ELSE @,
                              !.mediaRecorder = 0]
              ELSE R1
    IN  [R2 EXCEPT !.pc[r] = "source"]

\* stopRecording.current()
stopRecording(R) ==
    LET m == R.mediaRecorder IN
    IF m # 0 /\ R.recorders[m].st = "recording"
    THEN LET R1 == IF R.stream # 0
                   THEN [R EXCEPT !.tracks[R.stream] = "stopped"]
                   ELSE R
         IN  [R1 EXCEPT !.recorders[m].st = "stopping", !.recording = FALSE]
    ELSE R

\* recording ? stopRecording.current() : startRecording()
toggleRecording ==
    /\ IF recorder.recording
       THEN recorder' = stopRecording(recorder)
       ELSE \E r \in Starts :
              /\ recorder.pc[r] = "idle"
              /\ \A q \in Starts : q < r => recorder.pc[q] # "idle"
              /\ recorder' = BeginStart(recorder, r)
    /\ UNCHANGED << ExporterAndTime, bubble >>

\* getSelectedSource() resolves, with a source or with none
SourceResolve(r) ==
    /\ recorder.pc[r] = "source"
    /\ \E selected \in BOOLEAN :
          recorder' = [recorder EXCEPT !.pc[r] = IF selected THEN "media" ELSE "done"]
    /\ UNCHANGED << ExporterAndTime, bubble >>

\* getUserMedia resolves (no microphone selected): stream.current =
\* mediaStream, then await videoTrack.applyConstraints(...)
MediaResolve(r) ==
    /\ recorder.pc[r] = "media"
    /\ recorder' = [recorder EXCEPT !.tracks[r] = "live", !.stream = r,
                                    !.pc[r] = "constraints"]
    /\ UNCHANGED << ExporterAndTime, bubble >>

\* getUserMedia rejects
MediaReject(r) ==
    /\ recorder.pc[r] = "media"
    /\ recorder' = StartFailed(recorder, r)
    /\ UNCHANGED << ExporterAndTime, bubble >>

\* applyConstraints settles: new MediaRecorder(stream.current), start(),
\* setRecording(true); stream.current null throws into the catch block
ConstraintsDone(r) ==
    /\ recorder.pc[r] = "constraints"
    /\ recorder' =
          IF recorder.stream = 0 THEN StartFailed(recorder, r)
          ELSE [recorder EXCEPT
                  !.recorders[r] = [st |-> "recording", stream |-> recorder.stream],
                  !.mediaRecorder = r,
                  !.recording = TRUE,
                  !.pc[r] = "done"]
    /\ UNCHANGED << ExporterAndTime, bubble >>

\* recorder.onstop: stream.current = null (then the recording is saved)
RecorderStopped(m) ==
    /\ recorder.recorders[m].st = "stopping"
    /\ recorder' = [recorder EXCEPT !.recorders[m].st = "stopped", !.stream = 0]
    /\ UNCHANGED << ExporterAndTime, bubble >>

\* the user agent stops a recorder all of whose stream's tracks have ended
TracksEnded(m) ==
    /\ recorder.recorders[m].st = "recording"
    /\ recorder.tracks[recorder.recorders[m].stream] = "stopped"
    /\ recorder' = [recorder EXCEPT !.recorders[m].st = "stopping"]
    /\ UNCHANGED << ExporterAndTime, bubble >>

InitScreenRecorder ==
    /\ cfg = ReentrantConfig
    /\ InitExporter
    /\ tm = TmIdle

NextScreenRecorder ==
    \/ toggleRecording
    \/ \E r \in Starts : SourceResolve(r)
    \/ \E r \in Starts : MediaResolve(r)
    \/ \E r \in Starts : MediaReject(r)
    \/ \E r \in Starts : ConstraintsDone(r)
    \/ \E m \in Starts : RecorderStopped(m)
    \/ \E m \in Starts : TracksEnded(m)

SpecScreenRecorder == InitScreenRecorder /\ [][NextScreenRecorder]_vars

\* ------------------------------------------- the time mapper on its own
\* trim lists up to this length
MaxTrims == 2
\* instants up to this many frame periods
MaxTimeSteps == 4

GridTimes == { k * FramePeriodMs : k \in 0..MaxTimeSteps }

\* the instants and the region of the worked example are always among the inputs
TimePoints == GridTimes \cup {1500, 2500}

TrimRegions ==
    { [startMs |-> a, endMs |-> b] : a \in GridTimes, b \in GridTimes } \cap
    { g \in [startMs : GridTimes, endMs : GridTimes] : g.startMs < g.endMs }

ExampleTrim == [startMs |-> 2000, endMs |-> 4000]

\* every list, in any order, of at most MaxTrims regions
TrimLists ==
    UNION { [1..n -> TrimRegions \cup {ExampleTrim}] : n \in 0..MaxTrims }

InitTime ==
    /\ cfg = ReentrantConfig
    /\ InitExporter
    /\ tm \in { [pc |-> "ready", trims |-> tr, t1 |-> a, t2 |-> b,
                 out1 |-> 0, out2 |-> 0] :
                    tr \in TrimLists,
                    a \in TimePoints,
                    b \in TimePoints }
    /\ tm.t1 <= tm.t2

Exporter == << cfg, this, heap, pc, frameIndex, videoElement, awaitObj, joinSet,
               result, raised, totalFrames, rendered, onProgress, encoded,
               cancelledAt, overlapped, cancels, faults, audioBuffers,
               bubble, recorder >>

\* mapEffectiveToSourceTime applied to the earlier instant
MapFirst ==
    /\ tm.pc = "ready"
    /\ tm' = [tm EXCEPT !.out1 = mapEffectiveToSourceTime(tm.trims, tm.t1),
                        !.pc = "first"]
    /\ UNCHANGED Exporter

\* mapEffectiveToSourceTime applied to the later instant
MapSecond ==
    /\ tm.pc = "first"
    /\ tm' = [tm EXCEPT !.out2 = mapEffectiveToSourceTime(tm.trims, tm.t2),
                        !.pc = "done"]
    /\ UNCHANGED Exporter

NextTime == MapFirst \/ MapSecond

SpecTime == InitTime /\ [][NextTime]_vars

\* ------------------------------------- the effective duration on its own
\* videoInfo.duration of the clips, in milliseconds
Durations == GridTimes \ {0}

InitDuration ==
    /\ cfg = ReentrantConfig
    /\ InitExporter
    /\ tm \in { [pc |-> "ready", trims |-> tr, totalDuration |-> d,
                 effectiveDuration |-> 0, totalFrames |-> 0] :
                    tr \in TrimLists,
                    d \in Durations }

\* const effectiveDuration = this.getEffectiveDuration(videoInfo.duration)
GetEffectiveDuration ==
    /\ tm.pc = "ready"
    /\ tm' = [tm EXCEPT
                !.effectiveDuration = getEffectiveDurationMs(tm.trims, tm.totalDuration),
                !.pc = "duration"]
    /\ UNCHANGED Exporter

\* const totalFrames = Math.ceil(effectiveDuration * this.config.frameRate)
CountFrames ==
    /\ tm.pc = "duration"
    /\ tm' = [tm EXCEPT !.totalFrames = FrameCount(tm.effectiveDuration),
                        !.pc = "frames"]
    /\ UNCHANGED Exporter

NextDuration == GetEffectiveDuration \/ CountFrames

SpecDuration == InitDuration /\ [][NextDuration]_vars

\* ------------------------------------------ the audio segments on their own
\* processSegment(segmentStart, segmentEnd) of an uncancelled pass: the
\* segment is played unless it is empty
processSegment(segments, segmentStart, segmentEnd) ==
    IF segmentStart >= segmentEnd THEN segments
    ELSE Append(segments, [startMs |-> segmentStart, endMs |-> segmentEnd])

\* Math.max
Max(a, b) == IF a >= b THEN a ELSE b

\* the loop body with currentPos = trim.endMs
TrimStepNoMax(w) ==
    LET trim == w.sortedTrims[w.k]
    IN  [w EXCEPT !.segments = IF w.currentPos < trim.startMs
                               THEN processSegment(@, w.currentPos, trim.startMs)
                               ELSE @,
                  !.currentPos = trim.endMs,
                  !.k = @ + 1]

\* one iteration of for (const trim of sortedTrims)
TrimStep(w) ==
    LET trim == w.sortedTrims[w.k]
    IN  [w EXCEPT !.segments = IF w.currentPos < trim.startMs
                               THEN processSegment(@, w.currentPos, trim.startMs)
                               ELSE @,
                  !.currentPos = Max(w.currentPos, trim.endMs),
                  !.k = @ + 1]

InitSegments ==
    /\ cfg = ReentrantConfig
    /\ InitExporter
    /\ tm \in { [pc |-> "ready", trims |-> tr, totalDuration |-> d,
                 effectiveDuration |-> 0, totalFrames |-> 0,
                 sortedTrims |-> << >>, k |-> 1, currentPos |-> 0,
                 segments |-> << >>] :
                    tr \in TrimLists,
                    d \in Durations }

\* extractAudio up to its loop: without trims the whole clip is played, for
\* getEffectiveDuration(duration) seconds or until 'ended'
BeginExtract ==
    /\ tm.pc = "frames"
    /\ tm' = IF tm.trims = << >>
             THEN [tm EXCEPT
                     !.segments = processSegment(@, 0,
                                      getEffectiveDurationMs(tm.trims, tm.totalDuration)),
                     !.pc = "done"]
             ELSE [tm EXCEPT !.sortedTrims = SortByStart(tm.trims),
                             !.currentPos = 0,
                             !.k = 1,
                             !.pc = "walk"]
    /\ UNCHANGED Exporter

ProcessTrim ==
    /\ tm.pc = "walk"
    /\ tm.k <= Len(tm.sortedTrims)
    /\ tm' = TrimStep(tm)
    /\ UNCHANGED Exporter

\* if (currentPos < duration * 1000) await processSegment(currentPos, duration * 1000)
ProcessTail ==
    /\ tm.pc = "walk"
    /\ tm.k > Len(tm.sortedTrims)
    /\ tm' = [tm EXCEPT
                !.segments = IF tm.currentPos < tm.totalDuration
                             THEN processSegment(@, tm.currentPos, tm.totalDuration)
                             ELSE @,
                !.pc = "done"]
    /\ UNCHANGED Exporter

\* the duration and the segments are functions of the same configuration;
\* the duration is computed first here
NextSegments ==
    \/ GetEffectiveDuration
    \/ CountFrames
    \/ BeginExtract
    \/ ProcessTrim
    \/ ProcessTail

SpecSegments == InitSegments /\ [][NextSegments]_vars

\* ---------------------------------------------------------------- claims
Dur(g) == g.endMs - g.startMs

\* two regions share an instant
Overlap(g, h) == g.startMs < h.endMs /\ h.startMs < g.endMs

\* C9: mapEffectiveToSourceTime is monotonic non-decreasing: for every trim
\* list (unsorted, adjacent, overlapping) and effective times t1 < t2 the
\* mapped source time of t1 is at most that of t2.
C9_Monotonic ==
    (tm.pc = "done" /\ tm.t1 < tm.t2) => tm.out1 <= tm.out2

\* C9 witness: two overlapping regions given out of order, both instants
\* mapped, the later one shifted past a region the earlier one did not reach.
C9_Witness ==
    /\ tm.pc = "done"
    /\ tm.t1 < tm.t2
    /\ Len(tm.trims) = 2
    /\ tm.trims[1].startMs > tm.trims[2].startMs
    /\ Overlap(tm.trims[1], tm.trims[2])
    /\ tm.out1 = tm.t1
    /\ tm.out2 > tm.t2

\* the reference walk of the specification, stated without the loop: some
\* ordering of the list ascending by startMs, the longest prefix of it in
\* which every region starts at or before the instant shifted by the regions
\* before it, and the instant shifted by the whole prefix
RefOrders(trims) ==
    { p \in [DOMAIN trims -> DOMAIN trims] :
        /\ \A i, j \in DOMAIN trims : i # j => p[i] # p[j]
        /\ \A i, j \in DOMAIN trims :
              i < j => trims[p[i]].startMs <= trims[p[j]].startMs }

RECURSIVE RefShift(_, _, _)
RefShift(trims, p, k) ==
    IF k = 0 THEN 0 ELSE Dur(trims[p[k]]) + RefShift(trims, p, k - 1)

RefReached(trims, p, t, k) ==
    \A j \in 1..k : trims[p[j]].startMs <= t + RefShift(trims, p, j - 1)

RefMap(trims, t) ==
    LET p == CHOOSE q \in RefOrders(trims) : TRUE
        k == CHOOSE n \in 0..Len(trims) :
                /\ RefReached(trims, p, t, n)
                /\ \A n2 \in 0..Len(trims) : RefReached(trims, p, t, n2) => n2 <= n
    IN  t + RefShift(trims, p, k)

\* C10: for every effective time and every trim list in any order the result
\* equals the reference walk; it is the identity without trims, and with the
\* single trim {2000,4000} it maps 1500 to 1500 and 2500 to 4500.
C10_ReferenceWalk ==
    tm.pc \in {"first", "done"} =>
        /\ tm.out1 = RefMap(tm.trims, tm.t1)
        /\ (tm.trims = << >> => tm.out1 = tm.t1)
        /\ (tm.trims = << ExampleTrim >> /\ tm.t1 = 1500 => tm.out1 = 1500)
        /\ (tm.trims = << ExampleTrim >> /\ tm.t1 = 2500 => tm.out1 = 4500)

\* C10 witness: the worked example, 2500 mapped past the trimmed gap to 4500.
C10_Witness ==
    /\ tm.pc = "first"
    /\ tm.trims = << ExampleTrim >>
    /\ tm.t1 = 2500
    /\ tm.out1 = 4500

\* the awaits inside one iteration of the frame loop
LoopPcs == {"seek", "firstFrame", "render", "backpressure"}

\* the awaits an export() reaches only after initializeEncoder has returned
PastEncoderInit ==
    {"audioProbe", "muxerInit", "extractAudio", "seek", "firstFrame", "render",
     "backpressure", "flushVideo", "flushAudio", "join", "finalize"}

Done(r) == pc[r] = "done"

\* C1: if cancel() is called while export() is in its frame loop (a pending
\* seek, the first-frame wait, a pending renderFrame, the backpressure wait),
\* export() resolves with success=false and an error that says 'cancelled'.
C1_CancelInLoopYieldsCancelled ==
    \A r \in Runs :
        (Done(r) /\ cancelledAt[r] \in LoopPcs) => result[r] = Failure(CancelledMsg)

\* the resources export() call r created that are neither closed nor destroyed
OpenResources(r) ==
    { k \in {"decoder", "renderer", "encoder", "audioEncoder", "audioContext",
             "audioSource", "audioProcessor"} :
        \/ k = "decoder" /\ heap.decoderSt[r] = "open"
        \/ k = "renderer" /\ heap.rendererSt[r] = "open"
        \/ k = "encoder" /\ heap.encoderSt[r] \in {"unconfigured", "configured"}
        \/ k = "audioEncoder" /\ heap.audioEncoderSt[r] \in {"unconfigured", "configured"}
        \/ k = "audioContext" /\ heap.audioContextSt[r] = "open"
        \/ k = "audioSource" /\ heap.audioSourceSt[r] = "connected"
        \/ k = "audioProcessor" /\ heap.audioProcessorSt[r] = "connected" }

\* C2: once export() has resolved, no encoder, audio encoder, decoder,
\* renderer or audio-graph resource it created is left open, an encoder that
\* never reached 'configured' included.
C2_NoResourceLeftOpen ==
    \A r \in Runs : Done(r) => OpenResources(r) = {}

\* C3: in every reachable state of an export, for any interleaving of
\* frame-loop steps, encoder output and error callbacks and cancel(), the
\* in-flight encode counter never exceeds MAX_ENCODE_QUEUE.
C3_QueueBounded == this.encodeQueue <= MAX_ENCODE_QUEUE

\* C3 witness: the counter stands at the bound and the frame loop waits.
C3_Witness ==
    /\ this.encodeQueue = MAX_ENCODE_QUEUE
    /\ pc[1] = "backpressure"
    /\ ~this.cancelled

\* a step of export() call r
StepOf(r) == pc'[r] # pc[r] \/ frameIndex'[r] # frameIndex[r]

\* the objects export() call r created
Objects(h, r) ==
    << h.decoderSt[r], h.rendererSt[r], h.encoderSt[r], h.encPending[r], h.muxerSt[r] >>

\* C4: when export() is called while an earlier export() has not resolved,
\* the earlier export performs no further step on the shared state and its
\* completion does not release or reset what the new export owns.
C4_EarlierExportIsolated ==
    [][\A r1, r2 \in Runs :
          (r1 < r2 /\ Active(r1) /\ Active(r2) /\ StepOf(r1) /\ pc'[r2] = pc[r2]) =>
              (this' = this /\ Objects(heap', r2) = Objects(heap, r2))]_vars

\* an ExportResult: the success variant or the failure variant
IsExportResult(x) ==
    \/ x = Success
    \/ DOMAIN x = {"success", "error"} /\ x.success = FALSE

C6_NoWriteAtOrAfterFinalize ==
    \A k \in DOMAIN heap.tasks :
        LET m == heap.tasks[k].muxer IN
        (m # 0 /\ heap.muxerSt[m] \in {"finalizing", "finalized"}) =>
            heap.tasks[k].st # "pending"

HardwareRejected == ~cfg.hwSupported /\ cfg.swSupported

SameEncoding(a, b) ==
    /\ a.codec = b.codec
    /\ a.width = b.width
    /\ a.height = b.height
    /\ a.bitrate = b.bitrate

\* C7 as stated: with hardware unsupported and software supported, export()
\* succeeds and the video encoder is configured exactly twice.
C7_ConfiguredTwice ==
    \A r \in Runs :
        (HardwareRejected /\ Done(r) /\ cancels = 0 /\ faults = 0) =>
            (result[r] = Success /\ Len(heap.configures[r]) = 2)

\* C7 amended: with hardware unsupported and software supported, support is
\* probed exactly twice (hardware, then software, same codec, resolution and
\* bitrate) and configure() is called exactly once, with the software
\* configuration and never with the hardware one; the fallback does not fail
\* the export, which succeeds when nothing else goes wrong.
C7_SoftwareFallback ==
    \A r \in Runs :
        HardwareRejected =>
            /\ Len(heap.configures[r]) <= 1
            /\ \A i \in DOMAIN heap.configures[r] :
                  /\ heap.configures[r][i].hardwareAcceleration = "prefer-software"
                  /\ SameEncoding(heap.configures[r][i], heap.probes[r][1])
            /\ raised[r] # UnsupportedMsg
            /\ (pc[r] \in PastEncoderInit \/ (Done(r) /\ result[r] = Success)) =>
                  /\ Len(heap.probes[r]) = 2
                  /\ heap.probes[r][1].hardwareAcceleration = "prefer-hardware"
                  /\ heap.probes[r][2].hardwareAcceleration = "prefer-software"
                  /\ SameEncoding(heap.probes[r][2], heap.probes[r][1])
                  /\ Len(heap.configures[r]) = 1
            /\ (Done(r) /\ cancels = 0 /\ faults = 0) => result[r] = Success

\* C7 witness: the hardware configuration was rejected and the export
\* succeeded on the software configuration.
C7_Witness ==
    /\ HardwareRejected
    /\ Done(1)
    /\ result[1] = Success
    /\ heap.configures[1] = << SoftwareConfig >>

\* C8: if both the hardware and the software configuration are unsupported,
\* export() resolves with success=false, encode() is never called and no
\* frame is rendered or muxed.
C8_UnsupportedNeverEncodes ==
    (~cfg.hwSupported /\ ~cfg.swSupported) =>
        /\ \A r \in Runs :
              /\ Done(r) => (IsExportResult(result[r]) /\ result[r] # Success)
              /\ (Done(r) /\ cancels = 0 /\ faults = 0) =>
                    result[r] = Failure(UnsupportedMsg)
              /\ heap.encodeCalls[r] = 0
              /\ heap.renderCalls[r] = 0
        /\ heap.tasks = << >>

\* C8 witness: both probes answered unsupported and export() resolved with
\* the fatal error of initializeEncoder.
C8_Witness ==
    /\ ~cfg.hwSupported
    /\ ~cfg.swSupported
    /\ Done(1)
    /\ result[1] = Failure(UnsupportedMsg)

\* the sum of a field over the regions of a list, from the last index down
RECURSIVE SumStart(_, _)
SumStart(trims, k) == IF k = 0 THEN 0 ELSE trims[k].startMs + SumStart(trims, k - 1)

RECURSIVE SumEnd(_, _)
SumEnd(trims, k) == IF k = 0 THEN 0 ELSE trims[k].endMs + SumEnd(trims, k - 1)

DurationComputed == tm.pc \in {"duration", "frames"}

\* C11: getEffectiveDuration(sourceDuration) equals sourceDuration minus the
\* sum of (endMs - startMs) over all configured trim regions, for every trim
\* list; with no trim regions it equals sourceDuration.
C11_DurationMinusTrims ==
    DurationComputed =>
        /\ tm.effectiveDuration =
              tm.totalDuration
                - (SumEnd(tm.trims, Len(tm.trims)) - SumStart(tm.trims, Len(tm.trims)))
        /\ (tm.trims = << >> => tm.effectiveDuration = tm.totalDuration)

\* C11 witness: two regions of different lengths, the longer one first, and
\* the duration computed from them.
C11_Witness ==
    /\ tm.pc = "duration"
    /\ Len(tm.trims) = 2
    /\ Dur(tm.trims[1]) > Dur(tm.trims[2])
    /\ tm.effectiveDuration = tm.totalDuration - Dur(tm.trims[1]) - Dur(tm.trims[2])
    /\ tm.effectiveDuration > 0

\* C12: for all trim sets, overlapping regions and regions that extend past
\* the end of the source included, the effective duration is >= 0.
C12_DurationNonNegative ==
    DurationComputed => tm.effectiveDuration >= 0

\* every reference field of the instance is null
RefsNull(t) ==
    /\ t.audioProcessor = 0 /\ t.audioSource = 0 /\ t.audioContext = 0
    /\ t.audioEncoder = 0 /\ t.encoder = 0 /\ t.decoder = 0
    /\ t.renderer = 0 /\ t.muxer = 0

\* C15: cleanup() runs on every exit path of export(), and each sub-resource
\* instance (decoder, renderer, video encoder, audio encoder, audio context,
\* audio source, audio processor) is released at most once over the whole
\* life of the export, also when cancel() and the export's own exit both run
\* cleanup and when some resources were never created.
C15_ReleasedAtMostOnce ==
    /\ \A k \in ResourceKinds : \A r \in Runs : heap.released[k][r] <= 1
    /\ \A r \in Runs : Done(r) => RefsNull(this)

\* C15 witness: cancel() ran cleanup inside the frame loop and the export's
\* exit ran it again; decoder, renderer and encoder were released once each
\* and the audio resources were never created.
C15_Witness ==
    /\ Done(1)
    /\ cancelledAt[1] = "render"
    /\ heap.released["decoder"][1] = 1
    /\ heap.released["renderer"][1] = 1
    /\ heap.released["encoder"][1] = 1
    /\ heap.audioContextSt[1] = "none"
    /\ heap.released["audioContext"][1] = 0

\* C16: cleanup() is idempotent and callable from any state: a second run
\* directly after a first releases nothing again and leaves every field
\* (references null, encodeQueue 0, muxingPromises empty, chunk counters 0,
\* captured description and colour space undefined) unchanged.
C16_CleanupIdempotent ==
    LET once == cleanup(Cur)
        twice == cleanup(once)
    IN  /\ twice = once
        /\ once.this = [InitThis EXCEPT !.cancelled = this.cancelled]

\* C16 witness: cleanup() has just run on an export with a configured
\* encoder and queued frames (cancel() during renderFrame), the export has
\* not moved since, and running cleanup() again changes nothing.
C16_Witness ==
    /\ pc[1] = "render"
    /\ cancelledAt[1] = "render"
    /\ frameIndex[1] > 0
    /\ heap.released["encoder"][1] = 1
    /\ heap.released["decoder"][1] = 1
    /\ cleanup(Cur) = Cur

\* C17: if the video encoder's error callback fires at any time between the
\* encoder's configuration and the resolution of export(), export() resolves
\* with success=false.
C17_EncoderErrorFailsExport ==
    \A r \in Runs :
        (Done(r) /\ heap.errored[r]) => (IsExportResult(result[r]) /\ result[r] # Success)

\* C18: export() returns 'Export cancelled' only if it was stopped by a
\* cancel() request: an encoder error or another fault never yields that
\* message, and a user cancel never yields an unrelated fault message.
C18_CancelledIffCancel ==
    \A r \in Runs :
        Done(r) =>
            /\ result[r] = Failure(CancelledMsg) => cancelledAt[r] # "none"
            /\ (cancelledAt[r] # "none" /\ faults = 0 /\ result[r] # Success) =>
                  result[r] = Failure(CancelledMsg)

\* the mux write tasks of a track
TasksOf(track) == { k \in DOMAIN heap.tasks : heap.tasks[k].track = track }

\* C19: an unsupported audio codec configuration, or any failure while
\* initialising the audio encoder, is never fatal: the export does not fail
\* because of it, the audio extraction pass is skipped, no audio chunk is
\* passed to the muxer, and the export ends as it would without audio.
C19_AudioInitFailureSoft ==
    \A r \in Runs :
        heap.audioInit[r] \in {"unsupported", "failed"} =>
            /\ pc[r] # "extractAudio"
            /\ TasksOf("audio") = {}
            /\ (Done(r) /\ cancels = 0
                  /\ faults = (IF heap.audioInit[r] = "failed" THEN 1 ELSE 0)) =>
                    result[r] = Success

\* the instants of the source, on the grid the trim regions lie on
SourceInstants == { k * HalfPeriodMs : k \in 0..(2 * MaxFrames - 1) }

\* every instant of the source lies in some trim region
CoversSource(trims) ==
    \A t \in SourceInstants :
        \E k \in DOMAIN trims : trims[k].startMs <= t /\ t < trims[k].endMs

\* export() call r has computed totalFrames and entered its frame loop
LoopEntered(r) ==
    \/ pc[r] \in LoopPcs \cup {"flushVideo", "flushAudio", "join", "finalize"}
    \/ Done(r) /\ result[r] = Success

\* C13: if the trim regions cover the whole source, effectiveDuration is 0
\* and totalFrames is 0: the frame loop runs zero iterations, no frame is
\* rendered or encoded and onProgress is never invoked.
C13_FullTrimNoFrames ==
    \A r \in Runs :
        (CoversSource(cfg.trimRegions) /\ LoopEntered(r)) =>
            /\ getEffectiveDurationMs(cfg.trimRegions, SourceDurationMs) = 0
            /\ totalFrames[r] = 0
            /\ rendered[r] = << >>
            /\ heap.encodeCalls[r] = 0
            /\ onProgress[r] = << >>

\* the least integer n with n >= effectiveDuration (s) * frameRate
LeastFrameCount(effectiveDurationMs) ==
    CHOOSE n \in -(2 * MaxFrames * FrameRate)..(2 * MaxFrames * FrameRate) :
        /\ n * 1000 >= effectiveDurationMs * FrameRate
        /\ (n - 1) * 1000 < effectiveDurationMs * FrameRate

\* C14: the number of output frames is exactly ceil(effectiveDuration x
\* frameRate), and the frame loop processes exactly the frame indices
\* 0 .. totalFrames-1, each at most once, unless cancelled.
C14_ExactFrameCount ==
    \A r \in Runs :
        LoopEntered(r) =>
            /\ totalFrames[r] =
                  LeastFrameCount(getEffectiveDurationMs(cfg.trimRegions, SourceDurationMs))
            /\ \A k \in DOMAIN rendered[r] :
                  rendered[r][k].frame = k - 1 /\ rendered[r][k].frame < totalFrames[r]
            /\ (Done(r) /\ result[r] = Success /\ cancels = 0 /\ faults = 0) =>
                  /\ Len(rendered[r]) = totalFrames[r]
                  /\ heap.encodeCalls[r] = totalFrames[r]

\* C20: progress is reported exactly once after every processed frame,
\* whether or not the frame was submitted to the encoder: the k-th call of
\* onProgress carries currentFrame = k and the fixed totalFrames, and
\* currentFrame never exceeds totalFrames.
C20_ProgressPerFrame ==
    \A r \in Runs :
        /\ Len(onProgress[r]) = frameIndex[r]
        /\ \A k \in DOMAIN onProgress[r] :
              /\ onProgress[r][k].currentFrame = k
              /\ onProgress[r][k].totalFrames = totalFrames[r]
              /\ k <= totalFrames[r]

\* C20 witness: a frame went through the 'Encoder not ready' branch, so more
\* progress reports were made than frames were submitted to the encoder.
C20_Witness ==
    /\ Len(onProgress[1]) > heap.encodeCalls[1]
    /\ Len(onProgress[1]) >= 2
    /\ onProgress[1][Len(onProgress[1])].currentFrame = frameIndex[1]

\* the awaits of a frame-loop iteration before its encode step
InFlightPcs == {"seek", "firstFrame", "render"}

\* C21: cancel() takes effect only at the next checkpoint and does not
\* interrupt an in-flight frame: the renderer, decoder, encoder and muxer of
\* an iteration that has started stay available until it has finished its
\* render and encode steps.
C21_InFlightFrameKeepsResources ==
    \A r \in Runs :
        pc[r] \in InFlightPcs =>
            /\ this.renderer # 0 /\ heap.rendererSt[awaitObj[r]] # "destroyed"
            /\ this.decoder # 0 /\ heap.decoderSt[videoElement[r]] = "open"
            /\ this.encoder # 0
            /\ this.muxer # 0

\* C22: after cancel() is called in any state of a running export, export()
\* eventually resolves; the teardown of cancel() never leaves it waiting for
\* an event that can no longer occur.
C22_CancelledExportResolves ==
    \A r \in Runs : (cancelledAt[r] # "none") ~> Done(r)

\* C23: no encoded chunk, video or audio, is handed to the muxer before the
\* muxer has been created and its initialize() has completed.
C23_NoChunkBeforeMuxerReady ==
    \A k \in DOMAIN heap.tasks : heap.tasks[k].muxerSt \notin {"null", "created"}

\* the output chunks the video encoder has delivered to its output callback
Delivered == Cardinality(TasksOf("video"))

\* C24 as stated: in every reachable state encodeQueue equals the frames
\* submitted to encode() minus the output chunks delivered, for the current
\* export, and is never negative, also after cleanup() has reset it.
C24_QueueIsSubmittedMinusDelivered ==
    /\ this.encodeQueue >= 0
    /\ this.encodeQueue = Len(encoded[1]) - Delivered

\* C24 amended: encodeQueue is never negative; as long as cleanup() has not
\* run since the encoder was created it equals the frames submitted minus
\* the chunks delivered; cleanup() sets it to 0 whatever is outstanding.
C24_QueueTracksOpenEncoder ==
    /\ this.encodeQueue >= 0
    /\ this.encoder # 0 =>
          this.encodeQueue = heap.encodeCalls[this.encoder] - Delivered
    /\ this.encoder = 0 => this.encodeQueue = 0

\* C24 witness: cancel() ran cleanup while submitted frames had not been
\* output, and the counter stands at 0.
C24_Witness ==
    /\ cancels = 1
    /\ Active(1)
    /\ Len(encoded[1]) >= 2
    /\ Delivered = 1
    /\ this.encodeQueue = 0

\* C25: if cancel() is called after export() has started and before it
\* resolves, that export never resolves with success=true.
C25_CancelNeverSucceeds ==
    \A r \in Runs : (Done(r) /\ cancelledAt[r] # "none") => result[r] # Success

\* C26: the first video chunk passed to the muxer always carries a
\* decoderConfig with description and colour space (the encoder's or the
\* BT.709 default), whether or not the encoder attached a description to its
\* first output; exactly one video chunk per export is treated as the first.
C26_FirstVideoChunkHasConfig ==
    /\ \A k \in TasksOf("video") :
          heap.tasks[k].chunk = 1 =>
              /\ heap.tasks[k].first
              /\ heap.tasks[k].meta.decoderConfig
              /\ heap.tasks[k].meta.description
              /\ heap.tasks[k].meta.colorSpace \in {"encoder", "bt709"}
    /\ \A k \in TasksOf("video") : heap.tasks[k].first => heap.tasks[k].chunk = 1

\* the first task of a track, in the order the muxer was called
FirstOf(track) == { k \in TasksOf(track) : \A j \in TasksOf(track) : k <= j }

\* C27: the first chunk the audio encoder produces carries its decoder
\* configuration to the muxer: the first audio chunk the muxer receives has
\* a decoderConfig and is the encoder's first chunk, not dropped on the way.
C27_FirstAudioChunkHasConfig ==
    \A k \in FirstOf("audio") :
        /\ heap.tasks[k].chunk = 1
        /\ heap.tasks[k].meta.decoderConfig
        /\ heap.tasks[k].muxer # 0
        /\ heap.tasks[k].st # "failed"

\* C27 witness: the muxer has received two audio chunks, the first with the
\* decoderConfig and the second without.
C27_Witness ==
    \E i, j \in TasksOf("audio") :
        /\ i < j
        /\ heap.tasks[i].meta.decoderConfig
        /\ ~heap.tasks[j].meta.decoderConfig
        /\ heap.tasks[i].muxer = 1

\* C28: per track, addVideoChunk / addAudioChunk is invoked for an
\* earlier-emitted chunk before a later-emitted one, although every write is
\* an asynchronous task of its own.
C28_WritesInEmissionOrder ==
    \A i, j \in DOMAIN heap.tasks :
        ( /\ i < j
          /\ heap.tasks[i].track = heap.tasks[j].track
          /\ heap.tasks[i].muxer = heap.tasks[j].muxer ) =>
            heap.tasks[i].chunk < heap.tasks[j].chunk

\* C28 witness: two chunks of each track were handed over, and a later
\* video write has completed while an earlier one is still pending.
C28_Witness ==
    /\ Cardinality(TasksOf("audio")) >= 2
    /\ \E i, j \in TasksOf("video") :
          /\ i < j
          /\ heap.tasks[i].st = "pending"
          /\ heap.tasks[j].st = "done"

\* C29: on every exit of the frame loop, by the end of the frames or by
\* cancellation, both encoders (if configured) are flushed and every
\* outstanding mux write is awaited before the export finishes.
C29_LoopExitFlushesAndJoins ==
    \A r \in Runs :
        (Done(r) /\ encoded[r] # << >> /\ result[r] \in {Success, Failure(CancelledMsg)}) =>
            /\ (cancels = 0 /\ ~heap.errored[r] /\ heap.encodeCalls[r] > 0) =>
                  heap.flushCalls[r] >= 1
            /\ (cancels = 0 /\ heap.audioInit[r] = "ready") =>
                  heap.audioFlushCalls[r] >= 1
            /\ \A k \in DOMAIN heap.tasks :
                  heap.tasks[k].muxer = r => heap.tasks[k].st # "pending"

\* C30: frames are submitted to the video encoder in strictly increasing
\* output-timestamp order: the frame of index i with timestamp
\* i x (1_000_000 / frameRate) microseconds and a duration of one frame
\* period, no two encode() calls with the same or a decreasing timestamp.
C30_TimestampsIncrease ==
    \A r \in Runs : \A k \in DOMAIN encoded[r] :
        /\ encoded[r][k].timestamp = encoded[r][k].frame * (1000000 \div FrameRate)
        /\ encoded[r][k].duration = 1000000 \div FrameRate
        /\ encoded[r][k].frame \in 0..(totalFrames[r] - 1)
        /\ k > 1 => encoded[r][k - 1].timestamp < encoded[r][k].timestamp

\* C30 witness: an export with a trimmed source has submitted all its frames,
\* the last one taken from a later source instant than its output timestamp.
C30_Witness ==
    /\ Done(1)
    /\ result[1] = Success
    /\ Len(encoded[1]) = MaxFrames
    /\ SourceTimestamp(MaxFrames - 1) > encoded[1][MaxFrames].timestamp

\* the instants of a clip of the given length, on the half grid
ClipInstants(totalDuration) ==
    { t \in { k * HalfPeriodMs : k \in 0..(2 * MaxTimeSteps + 2) } : t < totalDuration }

Trimmed(trims, t) ==
    \E k \in DOMAIN trims : trims[k].startMs <= t /\ t < trims[k].endMs

\* C31: with trim regions, the audio pass plays exactly the complement of
\* the trim set: the segments are in strictly increasing source order,
\* pairwise disjoint, none intersects a trim region, and together they cover
\* every untrimmed instant, for unsorted and overlapping lists as well.
C31_SegmentsAreComplement ==
    (tm.pc = "done" /\ tm.trims # << >>) =>
        /\ \A i \in DOMAIN tm.segments : tm.segments[i].startMs < tm.segments[i].endMs
        /\ \A i, j \in DOMAIN tm.segments :
              i < j => tm.segments[i].endMs <= tm.segments[j].startMs
        /\ \A i \in DOMAIN tm.segments : \A k \in DOMAIN tm.trims :
              \/ tm.segments[i].endMs <= tm.trims[k].startMs
              \/ tm.trims[k].endMs <= tm.segments[i].startMs
        /\ \A t \in ClipInstants(tm.totalDuration) :
              Trimmed(tm.trims, t) \/ Trimmed(tm.segments, t)

\* C31 witness: an unsorted list of two overlapping regions, with a segment
\* played before them and one after.
C31_Witness ==
    /\ tm.pc = "done"
    /\ Len(tm.trims) = 2
    /\ tm.trims[1].startMs > tm.trims[2].startMs
    /\ tm.trims[1].startMs < tm.trims[2].endMs
    /\ Len(tm.segments) = 2

RECURSIVE PlayedMs(_)
PlayedMs(segments) ==
    IF segments = << >> THEN 0
    ELSE (segments[1].endMs - segments[1].startMs) + PlayedMs(Tail(segments))

\* C32: for every trim set the total length of the audio segments played by
\* extractAudio equals the effective duration the video frame count is
\* computed from.
C32_AudioMatchesEffectiveDuration ==
    tm.pc = "done" => PlayedMs(tm.segments) = tm.effectiveDuration

\* C33: for every effective time and every trim set the source time returned
\* by mapEffectiveToSourceTime lies inside no removed region.
C33_NeverInsideTrim ==
    /\ tm.pc \in {"first", "done"} => ~Trimmed(tm.trims, tm.out1)
    /\ tm.pc = "done" => ~Trimmed(tm.trims, tm.out2)

\* C33 witness: an instant that lies inside the first of two overlapping,
\* unsorted regions is mapped past both.
C33_Witness ==
    /\ tm.pc = "first"
    /\ Len(tm.trims) = 2
    /\ tm.trims[1].startMs > tm.trims[2].startMs
    /\ tm.trims[1].startMs < tm.trims[2].endMs
    /\ Trimmed(tm.trims, tm.t1)
    /\ tm.out1 >= tm.trims[1].endMs

\* the total length of the regions that start before the source instant
RECURSIVE SkippedMs(_, _)
SkippedMs(trims, sourceMs) ==
    IF trims = << >> THEN 0
    ELSE (IF Head(trims).startMs < sourceMs THEN Dur(Head(trims)) ELSE 0)
         + SkippedMs(Tail(trims), sourceMs)

\* C34: for every frame index i the compositor is called with the source
\* timestamp map(i x 1000 / frameRate) x 1000 microseconds, the frame given
\* to the encoder carries i x frame period, and the two differ by exactly
\* the total length of the trim regions skipped by the mapping.
C34_SourceVersusOutputTimestamp ==
    \A r \in Runs : \A k \in DOMAIN rendered[r] :
        LET i == rendered[r][k].frame
            src == rendered[r][k].sourceTimestamp
        IN  /\ src = RefMap(cfg.trimRegions, (i * 1000) \div FrameRate) * 1000
            /\ \A j \in DOMAIN encoded[r] :
                  encoded[r][j].frame = i =>
                      /\ encoded[r][j].timestamp = i * (1000000 \div FrameRate)
                      /\ src - encoded[r][j].timestamp =
                            1000 * SkippedMs(cfg.trimRegions, src \div 1000)

\* C34 witness: a frame rendered at a source instant after a trimmed gap was
\* encoded with the earlier output timestamp.
C34_Witness ==
    \E k \in DOMAIN rendered[1] : \E j \in DOMAIN encoded[1] :
        /\ encoded[1][j].frame = rendered[1][k].frame
        /\ encoded[1][j].frame >= 1
        /\ rendered[1][k].sourceTimestamp > encoded[1][j].timestamp

\* C35: whenever export() resolves with success=true, encode() was called
\* exactly totalFrames times, once for each frame index 0 .. totalFrames-1.
C35_SuccessEncodesEveryFrame ==
    \A r \in Runs :
        (Done(r) /\ result[r] = Success) =>
            /\ Len(encoded[r]) = totalFrames[r]
            /\ \A k \in DOMAIN encoded[r] : encoded[r][k].frame = k - 1

\* the object of a kind that the instance references, 0 if none
RefOf(t, kind) ==
    CASE kind = "audioProcessor" -> t.audioProcessor
      [] kind = "audioSource" -> t.audioSource
      [] kind = "audioContext" -> t.audioContext
      [] kind = "audioEncoder" -> t.audioEncoder
      [] kind = "encoder" -> t.encoder
      [] kind = "decoder" -> t.decoder
      [] kind = "renderer" -> t.renderer

\* the object of a kind is released in heap h
IsReleased(h, kind, o) ==
    CASE kind = "audioProcessor" -> h.audioProcessorSt[o] = "disconnected"
      [] kind = "audioSource" -> h.audioSourceSt[o] = "disconnected"
      [] kind = "audioContext" -> h.audioContextSt[o] = "closed"
      [] kind = "audioEncoder" -> h.audioEncoderSt[o] # "configured"
      [] kind = "encoder" -> h.encoderSt[o] # "configured"
      [] kind = "decoder" -> h.decoderSt[o] = "destroyed"
      [] kind = "renderer" -> h.rendererSt[o] = "destroyed"

C36_AudioOnlyDuringExtraction ==
    [][audioBuffers' > audioBuffers => pc[1] = "extractAudio"]_vars

\* C37: a muxing error on an individual chunk is only logged: a failing
\* addVideoChunk or addAudioChunk does not change the result of export(),
\* does not stop later chunks from being handed to the muxer and does not
\* keep the join from completing, so the export still resolves with
\* success=true.
C37_MuxErrorsOnlyLogged ==
    /\ ~this.cancelled
    /\ \A r \in Runs : raised[r] = "none"
    /\ Done(1) =>
          /\ result[1] = Success
          /\ Cardinality(TasksOf("video")) = totalFrames[1]

\* C37 witness: the export resolved with success although the write of the
\* first video chunk and the write of an audio chunk failed; the later video
\* chunks were written.
C37_Witness ==
    /\ Done(1)
    /\ result[1] = Success
    /\ \E i, j \in TasksOf("video") :
          /\ heap.tasks[i].chunk = 1 /\ heap.tasks[i].st = "failed"
          /\ heap.tasks[j].chunk = MaxFrames /\ heap.tasks[j].st = "done"
    /\ \E a \in TasksOf("audio") : heap.tasks[a].st = "failed"

\* the camera bubble windows that are open
OpenBubbles == { w \in Windows : bubble.st[w] = "open" }

\* C39: after any sequence of createCameraBubbleWindow,
\* closeCameraBubbleWindow and 'closed' events, cameraBubbleWindow references
\* the most recently created camera bubble window that has not been closed:
\* at most one is open, and the 'closed' event of a replaced window never
\* clears the reference to its successor.
C39_RegistryTracksLiveWindow ==
    /\ Cardinality(OpenBubbles) <= 1
    /\ \A w \in OpenBubbles : bubble.cameraBubbleWindow = w

\* the recorders in the 'recording' state whose stream has live tracks
Recording ==
    { m \in Starts :
        /\ recorder.recorders[m].st = "recording"
        /\ recorder.tracks[recorder.recorders[m].stream] = "live" }

\* C40: at most one MediaRecorder is in the 'recording' state for any
\* sequence of toggleRecording calls, also when a second toggle comes while
\* an earlier startRecording is awaiting its source or device, and once
\* recording has stopped and no startRecording is running, every recorder
\* and every stream track that was started has been stopped.
C40_AtMostOneRecording ==
    /\ Cardinality(Recording) <= 1
    /\ ( /\ ~recorder.recording
         /\ \A r \in Starts : recorder.pc[r] \in {"idle", "done"} ) =>
            /\ Recording = {}
            /\ \A r \in Starts : recorder.tracks[r] # "live"

====
